---- MODULE Spec2Model ----
(***************************************************************************)
(* Model of the trading decision core of WALLYBOTTY: the OrderExecutor of  *)
(* src/core/executor.py, the polling loop and request handlers of          *)
(* src/web/app.py, and the StrategyEngine (core/strategy.py) they call.    *)
(*                                                                         *)
(* Numbers.  The program computes with Python floats.  The model computes  *)
(* with exact rationals <<n, d>> (d > 0, lowest terms), so quantity*price  *)
(* is the real product; the two pairs with d = 0 stand for Python's None   *)
(* and for a key that a dict does not hold.                                *)
(***************************************************************************)
EXTENDS Integers, Sequences, FiniteSets, TLC

\* ------------------------------------------------------------------------
\* Bounds of the model
\* ------------------------------------------------------------------------

\* Orders recorded before the model stops issuing calls (detailed paper trading).
MaxOrders == 2

\* The same, where six symbols compete for the five position slots.
MaxCapOrders == 6

\* The same, where two polling loops run at once.
MaxRaceOrders == 3

\* The same, where funds are deposited and withdrawn between the trades.
MaxWalletOrders == 2

\* Deposits stop when the paper balance would pass this amount.
WalletCeiling == 200

\* The same, where the executor trades through the exchange adapter and the
\* mode is switched.
MaxLiveOrders == 2

\* The coins one polling loop looks at: one pass over the eight coins and the
\* first coin of the next pass.
MaxChecks == 9

\* ------------------------------------------------------------------------
\* Program constants (src/config/settings.py)
\* ------------------------------------------------------------------------

DEFAULT_TRADE_AMOUNT_USDT == 100

MAX_TRADE_AMOUNT_USDT == 1000

MIN_TRADE_AMOUNT_USDT == 10

MAX_OPEN_POSITIONS == 5

MAX_POSITION_PER_COIN == 1

\* The paper balance a fresh executor starts with (executor.py:121).
STARTING_BALANCE == 10000

DEFAULT_COINS ==
    <<"BTC/USDT", "ETH/USDT", "SOL/USDT", "XRP/USDT",
      "DOGE/USDT", "ADA/USDT", "AVAX/USDT", "MATIC/USDT">>

\* ------------------------------------------------------------------------
\* Numbers: Python floats as exact rationals, None, and missing dict keys
\* ------------------------------------------------------------------------

NoneVal == <<0, 0>>

Missing == <<1, 0>>

IsNum(x) == x[2] # 0

Abs(n) == IF n < 0 THEN -n ELSE n

RECURSIVE GCD(_, _)
GCD(a, b) == IF b = 0 THEN a ELSE GCD(b, a % b)

Rat(n, d) ==
    LET g == GCD(Abs(n), Abs(d))
        s == IF d < 0 THEN -1 ELSE 1
    IN  <<(s * n) \div g, (s * d) \div g>>

R(n) == <<n, 1>>

RAdd(x, y) == Rat(x[1] * y[2] + y[1] * x[2], x[2] * y[2])

RSub(x, y) == Rat(x[1] * y[2] - y[1] * x[2], x[2] * y[2])

RMul(x, y) == Rat(x[1] * y[1], x[2] * y[2])

RDiv(x, y) == Rat(x[1] * y[2], x[2] * y[1])

RLt(x, y) == x[1] * y[2] < y[1] * x[2]

RLe(x, y) == x[1] * y[2] <= y[1] * x[2]

\* Python truthiness of an optional number: None and 0 are falsy.
Truthy(x) == IsNum(x) /\ x[1] # 0

\* dict.get(key, default) on a dict modelled as a function.
DictGet(d, k, default) == IF k \in DOMAIN d THEN d[k] ELSE default

\* d[k] = v on a dict modelled as a function.
DictPut(d, k, v) == [x \in (DOMAIN d) \cup {k} |-> IF x = k THEN v ELSE d[x]]

\* ------------------------------------------------------------------------
\* State
\* ------------------------------------------------------------------------

VARIABLES
    paper_mode,       \* OrderExecutor.paper_mode
    exchange,         \* OrderExecutor.exchange: "None" or "ccxt"
    paper_balance,    \* OrderExecutor.paper_balance: currency -> amount
    orders,           \* OrderExecutor.orders: sequence of Order
    trades,           \* OrderExecutor.trades: trade_id -> Trade, in insertion order
    order_counter,    \* OrderExecutor._order_counter
    trade_counter,    \* OrderExecutor._trade_counter
    file,             \* the ledger file logs/trades.log: <<>> or <<contents>>
    disk,             \* what a write of the ledger file meets: "ok", "denied"
                      \* (open fails) or "full" (the write fails after open)
    positions,        \* StrategyEngine's PositionStore: symbol -> Position
    triggers,         \* StrategyEngine's TriggerConfig
    running,          \* bot_state['running']
    frames,           \* per polling-loop thread: where it is, with the locals
                      \* of an execute_signal call in progress
    last,             \* the last completed call: its inputs, the state it
                      \* started from and what it returned
    before_buy,       \* history: per symbol, the paper balance and the number of
                      \* orders just before the last buy that returned an Order
    clock,            \* time.time(), in seconds
    fetcher,          \* DataFetcher._price_cache and _cache_timestamp
    cycle,            \* history: per polling-loop thread, the symbols evaluated
                      \* in the pass in progress and in the last finished pass
    handler,          \* the request handler that is inside deposit_paper_funds
                      \* or withdraw_paper_funds (with its locals), if any
    funds             \* history: the paper balance the process started with
                      \* and the deposits less the withdrawals made since

vars ==
    <<paper_mode, exchange, paper_balance, orders, trades, order_counter,
      trade_counter, file, disk, positions, triggers, running, frames, last,
      before_buy, clock, fetcher, cycle, handler, funds>>

\* The executor's and the strategy's state as one value, for the operators below.
Cur ==
    [paper_mode |-> paper_mode, exchange |-> exchange,
     paper_balance |-> paper_balance, orders |-> orders, trades |-> trades,
     order_counter |-> order_counter, trade_counter |-> trade_counter,
     file |-> file, disk |-> disk, positions |-> positions]

\* The state S becomes the next state.
Becomes(S) ==
    /\ paper_mode' = S.paper_mode
    /\ exchange' = S.exchange
    /\ paper_balance' = S.paper_balance
    /\ orders' = S.orders
    /\ trades' = S.trades
    /\ order_counter' = S.order_counter
    /\ trade_counter' = S.trade_counter
    /\ file' = S.file
    /\ disk' = S.disk
    /\ positions' = S.positions

\* What a call hands back: the state it leaves, the Order it returns (<<>> for
\* None, <<order>> otherwise) and whether an exception left it.
Returns(S, order) == [st |-> S, ret |-> order, raised |-> FALSE]

Raises(S) == [st |-> S, ret |-> <<>>, raised |-> TRUE]

\* ------------------------------------------------------------------------
\* StrategyEngine: the PositionStore (core/strategy.py, as the executor uses it)
\* ------------------------------------------------------------------------

Position(symbol, price, quantity) ==
    [symbol |-> symbol, entry_price |-> price, quantity |-> quantity]

\* Open positions counted for one symbol.
PositionsOf(S, symbol) == IF symbol \in DOMAIN S.positions THEN 1 ELSE 0

can_open_position(S, symbol) ==
    /\ symbol \notin DOMAIN S.positions
    /\ Cardinality(DOMAIN S.positions) < MAX_OPEN_POSITIONS
    /\ PositionsOf(S, symbol) < MAX_POSITION_PER_COIN

\* Stores the Position; the capacity check is the caller's.
add_position(S, symbol, price, quantity) ==
    [S EXCEPT !.positions = DictPut(@, symbol, Position(symbol, price, quantity))]

\* <<>> for none, <<position>> otherwise.
get_position(S, symbol) ==
    IF symbol \in DOMAIN S.positions THEN <<S.positions[symbol]>> ELSE <<>>

close_position(S, symbol) ==
    [S EXCEPT !.positions = [x \in (DOMAIN @) \ {symbol} |-> @[x]]]

\* ------------------------------------------------------------------------
\* OrderExecutor: records and persistence (src/core/executor.py)
\* ------------------------------------------------------------------------

Order(order_id, symbol, side, quantity, price, status, filled_price, fee, is_paper) ==
    [order_id |-> order_id, symbol |-> symbol, side |-> side,
     order_type |-> "market", quantity |-> quantity, price |-> price,
     status |-> status, filled_price |-> filled_price, fee |-> fee,
     is_paper |-> is_paper]

\* A Trade as its constructor leaves it: exit fields at their defaults.
Trade(trade_id, symbol, quantity, entry_price, is_paper) ==
    [trade_id |-> trade_id, symbol |-> symbol, side |-> "long",
     quantity |-> quantity, entry_price |-> entry_price, exit_price |-> R(0),
     pnl |-> R(0), pnl_percent |-> R(0), exit_time |-> "None",
     is_paper |-> is_paper, status |-> "open"]

\* self.trades[trade.trade_id] = trade: a new key is appended, a key already
\* held keeps its place and gets the new value.
TradesPut(ts, trade) ==
    IF \E i \in 1..Len(ts) : ts[i].trade_id = trade.trade_id
    THEN [i \in 1..Len(ts) |->
             IF ts[i].trade_id = trade.trade_id THEN trade ELSE ts[i]]
    ELSE Append(ts, trade)

\* Index of the first open trade of the symbol, 0 when there is none.
FirstOpenTrade(ts, symbol) ==
    LET hits == {i \in 1..Len(ts) : ts[i].symbol = symbol /\ ts[i].status = "open"}
    IN  IF hits = {} THEN 0 ELSE CHOOSE i \in hits : \A j \in hits : i <= j

\* The loop that closes the first open trade of the symbol (and breaks).
CloseFirstOpenTrade(ts, symbol, exit_price, pnl, pnl_percent) ==
    LET i == FirstOpenTrade(ts, symbol)
    IN  IF i = 0 THEN ts
        ELSE [ts EXCEPT ![i].exit_price = exit_price, ![i].exit_time = "now",
                        ![i].pnl = pnl, ![i].pnl_percent = pnl_percent,
                        ![i].status = "closed"]

get_trade_history(S) == S.trades

get_order_history(S) == S.orders

\* A ledger file that json.load cannot read.
UnreadableLedger ==
    LET contents == [unreadable |-> TRUE]
    IN  <<contents>>

\* Mutant of _save_trade_history: a write that fails empties self.orders.
_save_trade_history_or_forget(S) ==
    IF S.disk = "ok"
    THEN [S EXCEPT !.file = <<[trades |-> get_trade_history(S),
                               orders |-> get_order_history(S),
                               paper_balance |-> S.paper_balance]>>]
    ELSE [S EXCEPT !.orders = <<>>]

\* Overwrites the ledger file with the trades, the orders and the balance.
\* A failure is logged and swallowed: when makedirs or open fails the file is
\* as it was, when json.dump fails the opened file is left cut short.
_save_trade_history(S) ==
    IF S.disk = "ok"
    THEN [S EXCEPT !.file = <<[trades |-> get_trade_history(S),
                               orders |-> get_order_history(S),
                               paper_balance |-> S.paper_balance]>>]
    ELSE IF S.disk = "denied" THEN S
    ELSE [S EXCEPT !.file = UnreadableLedger]

\* The simulated fee of a paper order: 0.1% of its value.
PaperFee(value) == RMul(value, Rat(1, 1000))

\* ------------------------------------------------------------------------
\* OrderExecutor: execute_signal and its buy and sell paths
\* ------------------------------------------------------------------------

\* The exchange adapter was not called.
NoAdapter == [raises |-> FALSE, id |-> "-", status |-> "-",
              average |-> Missing, fee |-> Missing]

\* result.get('average', price)
AverageOr(res, price) == IF res.average = Missing THEN price ELSE res.average

\* result.get('fee', {}).get('cost', 0), for a fee that is a number or missing.
FeeCost(res) == IF res.fee = Missing THEN R(0) ELSE res.fee

LiveStatus(res) == IF res.status = "closed" THEN "filled" ELSE "pending"

\* Mutant of _paper_buy: the fee is debited from the balance with the cost.
_paper_buy_debits_fee(S, symbol, quantity, price, signal) ==
    LET cost == RMul(quantity, price)
    IN  IF RLt(DictGet(S.paper_balance, "USDT", R(0)), cost)
        THEN Returns(S, <<>>)
        ELSE
        LET order == Order(<<"PAPER", S.order_counter + 1>>, symbol, "buy",
                           quantity, price, "filled", price, PaperFee(cost), TRUE)
            trade == Trade(<<"TRADE", S.trade_counter + 1>>, symbol, quantity,
                           price, TRUE)
            S1 == [S EXCEPT !.paper_balance["USDT"] =
                                RSub(@, RAdd(cost, PaperFee(cost))),
                            !.order_counter = @ + 1,
                            !.orders = Append(@, order),
                            !.trade_counter = @ + 1,
                            !.trades = TradesPut(@, trade)]
            S2 == add_position(S1, symbol, price, quantity)
        IN  Returns(_save_trade_history(S2), <<order>>)

\* Mutant of _paper_buy: a cost equal to the balance is rejected too.
_paper_buy_rejects_equal(S, symbol, quantity, price, signal) ==
    LET cost == RMul(quantity, price)
    IN  IF RLe(DictGet(S.paper_balance, "USDT", R(0)), cost)
        THEN Returns(S, <<>>)
        ELSE
        LET order == Order(<<"PAPER", S.order_counter + 1>>, symbol, "buy",
                           quantity, price, "filled", price, PaperFee(cost), TRUE)
            trade == Trade(<<"TRADE", S.trade_counter + 1>>, symbol, quantity,
                           price, TRUE)
            S1 == [S EXCEPT !.paper_balance["USDT"] = RSub(@, cost),
                            !.order_counter = @ + 1,
                            !.orders = Append(@, order),
                            !.trade_counter = @ + 1,
                            !.trades = TradesPut(@, trade)]
            S2 == add_position(S1, symbol, price, quantity)
        IN  Returns(_save_trade_history(S2), <<order>>)

_paper_buy(S, symbol, quantity, price, signal) ==
    LET cost == RMul(quantity, price)
    IN  IF RLt(DictGet(S.paper_balance, "USDT", R(0)), cost)
        THEN Returns(S, <<>>)
        ELSE IF "USDT" \notin DOMAIN S.paper_balance
        THEN Raises(S)
        ELSE
        LET order == Order(<<"PAPER", S.order_counter + 1>>, symbol, "buy",
                           quantity, price, "filled", price, PaperFee(cost), TRUE)
            trade == Trade(<<"TRADE", S.trade_counter + 1>>, symbol, quantity,
                           price, TRUE)
            S1 == [S EXCEPT !.paper_balance["USDT"] = RSub(@, cost),
                            !.order_counter = @ + 1,
                            !.orders = Append(@, order),
                            !.trade_counter = @ + 1,
                            !.trades = TradesPut(@, trade)]
            S2 == add_position(S1, symbol, price, quantity)
        IN  Returns(_save_trade_history(S2), <<order>>)

_live_buy(S, symbol, quantity, price, signal, res) ==
    IF S.exchange = "None" THEN Returns(S, <<>>)
    ELSE IF res.raises \/ res.fee = NoneVal THEN Returns(S, <<>>)
    ELSE
    LET order == Order(res.id, symbol, "buy", quantity, price, LiveStatus(res),
                       AverageOr(res, price), FeeCost(res), FALSE)
        trade == Trade(<<"TRADE", S.trade_counter + 1>>, symbol, quantity,
                       order.filled_price, FALSE)
        S1 == [S EXCEPT !.orders = Append(@, order),
                        !.trade_counter = @ + 1,
                        !.trades = TradesPut(@, trade)]
        S2 == add_position(S1, symbol, order.filled_price, quantity)
    IN  IF ~IsNum(order.filled_price)
        THEN Returns(S2, <<>>)
        ELSE Returns(_save_trade_history(S2), <<order>>)

\* Mutant of BuyAdmitted: only a price of 0 is turned away.
BuyAdmittedBelowZero(S, signal) ==
    /\ signal.price # R(0)
    /\ can_open_position(S, signal.symbol)

\* Mutant of BuyAdmitted: the capacity check is left out.
BuyAdmittedWithoutCapacity(S, signal) == ~RLe(signal.price, R(0))

\* _execute_buy up to its capacity check: TRUE when the buy goes on to be placed.
BuyAdmitted(S, signal) ==
    /\ ~RLe(signal.price, R(0))
    /\ can_open_position(S, signal.symbol)

\* _execute_buy from the mode dispatch on, with the quantity it computed.
PlaceBuy(S, symbol, quantity, price, signal, res) ==
    IF S.paper_mode
    THEN _paper_buy(S, symbol, quantity, price, signal)
    ELSE _live_buy(S, symbol, quantity, price, signal, res)

\* Mutant of _execute_buy: a buy that cannot open a position is placed anyway.
_execute_buy_unchecked(S, signal, amount_usdt, res) ==
    IF RLe(signal.price, R(0))
    THEN Returns(S, <<>>)
    ELSE PlaceBuy(S, signal.symbol, RDiv(amount_usdt, signal.price),
                  signal.price, signal, res)

_execute_buy(S, signal, amount_usdt, res) ==
    IF ~BuyAdmitted(S, signal)
    THEN Returns(S, <<>>)
    ELSE PlaceBuy(S, signal.symbol, RDiv(amount_usdt, signal.price),
                  signal.price, signal, res)

\* Mutant of _paper_sell: the balance is credited with the cost of the
\* position instead of the proceeds of the sale.
_paper_sell_credits_cost(S, symbol, quantity, price, entry_price, signal) ==
    LET proceeds == RMul(quantity, price)
        cost == RMul(quantity, entry_price)
        pnl == RSub(proceeds, cost)
        pnl_percent == RMul(RDiv(pnl, cost), R(100))
        order == Order(<<"PAPER", S.order_counter + 1>>, symbol, "sell",
                       quantity, price, "filled", price, PaperFee(proceeds), TRUE)
        S1 == [S EXCEPT !.paper_balance["USDT"] = RAdd(@, cost),
                        !.order_counter = @ + 1,
                        !.orders = Append(@, order),
                        !.trades = CloseFirstOpenTrade(@, symbol, price, pnl,
                                                       pnl_percent)]
        S2 == close_position(S1, symbol)
    IN  Returns(_save_trade_history(S2), <<order>>)

\* Mutant of _paper_sell: the two fees are taken off the pnl and off the
\* proceeds credited.
_paper_sell_net_of_fees(S, symbol, quantity, price, entry_price, signal) ==
    LET proceeds == RMul(quantity, price)
        cost == RMul(quantity, entry_price)
        fees == RAdd(PaperFee(cost), PaperFee(proceeds))
        pnl == RSub(RSub(proceeds, cost), fees)
        pnl_percent == RMul(RDiv(pnl, cost), R(100))
        order == Order(<<"PAPER", S.order_counter + 1>>, symbol, "sell",
                       quantity, price, "filled", price, PaperFee(proceeds), TRUE)
        S1 == [S EXCEPT !.paper_balance["USDT"] = RAdd(@, RSub(proceeds, fees)),
                        !.order_counter = @ + 1,
                        !.orders = Append(@, order),
                        !.trades = CloseFirstOpenTrade(@, symbol, price, pnl,
                                                       pnl_percent)]
        S2 == close_position(S1, symbol)
    IN  Returns(_save_trade_history(S2), <<order>>)

\* Mutant of _paper_sell: the sale is booked but the position is not closed.
_paper_sell_keeps_position(S, symbol, quantity, price, entry_price, signal) ==
    LET proceeds == RMul(quantity, price)
        cost == RMul(quantity, entry_price)
        pnl == RSub(proceeds, cost)
        pnl_percent == RMul(RDiv(pnl, cost), R(100))
        order == Order(<<"PAPER", S.order_counter + 1>>, symbol, "sell",
                       quantity, price, "filled", price, PaperFee(proceeds), TRUE)
        S1 == [S EXCEPT !.paper_balance["USDT"] = RAdd(@, proceeds),
                        !.order_counter = @ + 1,
                        !.orders = Append(@, order),
                        !.trades = CloseFirstOpenTrade(@, symbol, price, pnl,
                                                       pnl_percent)]
    IN  Returns(_save_trade_history(S1), <<order>>)

\* Mutant of _paper_sell: the balance is credited with the profit only.
_paper_sell_credits_pnl(S, symbol, quantity, price, entry_price, signal) ==
    LET proceeds == RMul(quantity, price)
        cost == RMul(quantity, entry_price)
        pnl == RSub(proceeds, cost)
        pnl_percent == RMul(RDiv(pnl, cost), R(100))
        order == Order(<<"PAPER", S.order_counter + 1>>, symbol, "sell",
                       quantity, price, "filled", price, PaperFee(proceeds), TRUE)
        S1 == [S EXCEPT !.paper_balance["USDT"] = RAdd(@, pnl),
                        !.order_counter = @ + 1,
                        !.orders = Append(@, order),
                        !.trades = CloseFirstOpenTrade(@, symbol, price, pnl,
                                                       pnl_percent)]
        S2 == close_position(S1, symbol)
    IN  Returns(_save_trade_history(S2), <<order>>)

_paper_sell(S, symbol, quantity, price, entry_price, signal) ==
    IF ~IsNum(entry_price) \/ ~IsNum(quantity) THEN Raises(S)
    ELSE
    LET proceeds == RMul(quantity, price)
        cost == RMul(quantity, entry_price)
        pnl == RSub(proceeds, cost)
    IN  IF cost = R(0) \/ "USDT" \notin DOMAIN S.paper_balance
        THEN Raises(S)
        ELSE
        LET pnl_percent == RMul(RDiv(pnl, cost), R(100))
            order == Order(<<"PAPER", S.order_counter + 1>>, symbol, "sell",
                           quantity, price, "filled", price, PaperFee(proceeds),
                           TRUE)
            S1 == [S EXCEPT !.paper_balance["USDT"] = RAdd(@, proceeds),
                            !.order_counter = @ + 1,
                            !.orders = Append(@, order),
                            !.trades = CloseFirstOpenTrade(@, symbol, price, pnl,
                                                           pnl_percent)]
            S2 == close_position(S1, symbol)
        IN  Returns(_save_trade_history(S2), <<order>>)

_live_sell(S, symbol, quantity, price, entry_price, signal, res) ==
    IF S.exchange = "None" THEN Returns(S, <<>>)
    ELSE IF res.raises THEN Returns(S, <<>>)
    ELSE
    LET filled_price == AverageOr(res, price)
    IN  IF ~IsNum(filled_price) \/ ~IsNum(entry_price) \/ ~IsNum(quantity)
        THEN Returns(S, <<>>)
        ELSE
        LET proceeds == RMul(quantity, filled_price)
            cost == RMul(quantity, entry_price)
            pnl == RSub(proceeds, cost)
        IN  IF cost = R(0) \/ res.fee = NoneVal
            THEN Returns(S, <<>>)
            ELSE
            LET pnl_percent == RMul(RDiv(pnl, cost), R(100))
                order == Order(res.id, symbol, "sell", quantity, price,
                               LiveStatus(res), filled_price, FeeCost(res), FALSE)
                S1 == [S EXCEPT !.orders = Append(@, order),
                                !.trades = CloseFirstOpenTrade(@, symbol,
                                               filled_price, pnl, pnl_percent)]
                S2 == close_position(S1, symbol)
            IN  Returns(_save_trade_history(S2), <<order>>)

\* Mutant of _execute_sell: without a position one unit is sold, bought at
\* the signal's price.
_execute_sell_without_position(S, signal, res) ==
    LET held == get_position(S, signal.symbol)
        position == IF held = <<>>
                    THEN <<Position(signal.symbol, signal.price, R(1))>>
                    ELSE held
    IN  IF S.paper_mode
        THEN _paper_sell(S, signal.symbol, position[1].quantity, signal.price,
                         position[1].entry_price, signal)
        ELSE _live_sell(S, signal.symbol, position[1].quantity, signal.price,
                        position[1].entry_price, signal, res)

_execute_sell(S, signal, res) ==
    LET position == get_position(S, signal.symbol)
    IN  IF position = <<>>
        THEN Returns(S, <<>>)
        ELSE IF S.paper_mode
        THEN _paper_sell(S, signal.symbol, position[1].quantity, signal.price,
                         position[1].entry_price, signal)
        ELSE _live_sell(S, signal.symbol, position[1].quantity, signal.price,
                        position[1].entry_price, signal, res)

\* amount_usdt or settings.DEFAULT_TRADE_AMOUNT_USDT
AmountOrDefault(amount_usdt) ==
    IF Truthy(amount_usdt) THEN amount_usdt ELSE R(DEFAULT_TRADE_AMOUNT_USDT)

\* Mutant of Capped: an amount above the maximum is traded as requested.
Uncapped(amount) == amount

\* The amount after the cap at the configured maximum.
Capped(amount) ==
    IF RLt(R(MAX_TRADE_AMOUNT_USDT), amount) THEN R(MAX_TRADE_AMOUNT_USDT) ELSE amount

\* Mutant of execute_signal: whatever is not a BUY is executed as a sell.
execute_signal_else_sells(S, signal, amount_usdt, res) ==
    LET amount == AmountOrDefault(amount_usdt)
    IN  IF RLt(amount, R(MIN_TRADE_AMOUNT_USDT)) THEN Returns(S, <<>>)
        ELSE IF signal.signal_type = "BUY"
        THEN _execute_buy(S, signal, Capped(amount), res)
        ELSE _execute_sell(S, signal, res)

execute_signal(S, signal, amount_usdt, res) ==
    IF signal.signal_type = "HOLD" THEN Returns(S, <<>>)
    ELSE
    LET amount == AmountOrDefault(amount_usdt)
    IN  IF RLt(amount, R(MIN_TRADE_AMOUNT_USDT)) THEN Returns(S, <<>>)
        ELSE IF signal.signal_type = "BUY"
        THEN _execute_buy(S, signal, Capped(amount), res)
        ELSE IF signal.signal_type = "SELL"
        THEN _execute_sell(S, signal, res)
        ELSE Returns(S, <<>>)

\* ------------------------------------------------------------------------
\* Construction
\* ------------------------------------------------------------------------

\* The balance an executor starts with when no ledger file is read.
FreshBalance == [c \in {"USDT"} |-> R(STARTING_BALANCE)]

\* Mutant of _load_trade_history: the file is not looked at.
_load_trade_history_fresh(f) == FreshBalance

\* The balance _load_trade_history leaves: the file's paper_balance when the
\* file is there and holds one, the constructor's balance otherwise (no file,
\* or a file that cannot be read as the ledger).
_load_trade_history(f) ==
    IF f = <<>> \/ "paper_balance" \notin DOMAIN f[1]
    THEN FreshBalance
    ELSE f[1].paper_balance

\* A ledger file a previous run left with this balance.
LedgerWith(balance) ==
    LET contents == [trades |-> << >>, orders |-> << >>,
                     paper_balance |-> [c \in {"USDT"} |-> balance]]
    IN  <<contents>>

\* Ledger files found at startup: none, or one left with a balance of 100.
InitFiles == {<<>>, LedgerWith(R(100))}

DefaultTriggers ==
    [buy |-> [rsi_below |-> R(30), dip_percent |-> R(5),
              volume_spike |-> Rat(3, 2), enabled |-> TRUE],
     sell |-> [rsi_above |-> R(70), rise_percent |-> R(10), stop_loss |-> R(5),
               take_profit |-> R(15), enabled |-> TRUE]]

NoSignal == [signal_type |-> "-", symbol |-> "-", price |-> NoneVal,
             reasons |-> <<>>]

\* Threads that start_bot can start to run the polling loop.
Threads == {1, 2}

\* A thread slot whose loop is not running; checks counts the coins the loop
\* has looked at in check_for_signals.
NoLoop == [pc |-> "none", signal |-> NoSignal, quantity |-> NoneVal, checks |-> 0]

\* A thread in run_bot_loop, outside execute_signal.
InLoop == [NoLoop EXCEPT !.pc = "loop"]

\* No call has completed yet.
\* No indicator snapshot: the call was not made by check_for_signals.
NoIndicators ==
    [price |-> NoneVal, rsi |-> NoneVal, dip_percent |-> NoneVal,
     volume_spike |-> NoneVal]

NoCall ==
    [op |-> "init", signal |-> NoSignal, indicators |-> NoIndicators,
     amount |-> NoneVal, res |-> NoAdapter, ret |-> <<>>, raised |-> FALSE,
     pre |-> <<>>, data |-> <<>>, pre_triggers |-> <<>>]

\* DataFetcher._cache_duration and settings.STRATEGY_CHECK_INTERVAL, seconds.
_cache_duration == 10

STRATEGY_CHECK_INTERVAL == 10

\* DataFetcher.__init__: nothing cached, at timestamp 0.
NoCache == [_price_cache |-> <<>>, _cache_timestamp |-> 0]

\* No symbol evaluated in the pass in progress, no pass finished yet.
NoPass == [evaluated |-> <<>>, finished |-> <<>>]

\* No handler is inside withdraw_paper_funds.
NoRequest == [pc |-> "none", amount |-> NoneVal, current |-> NoneVal,
              began |-> <<>>, calls |-> <<>>]

\* OrderExecutor.__init__ (paper_mode given or from settings), a fresh
\* strategy and a fresh fetcher; lives: the values of "not paper_mode" the
\* executor is built with.  The clock starts late enough for the empty cache
\* to be stale, as on any real start.
InitWith(files, lives) ==
    /\ \E live \in lives :
          /\ paper_mode = ~live
          /\ exchange = IF live THEN "ccxt" ELSE "None"
    /\ file \in files
    /\ disk = "ok"
    /\ paper_balance = _load_trade_history(file)
    /\ orders = <<>>
    /\ trades = <<>>
    /\ order_counter = 0
    /\ trade_counter = 0
    /\ positions = <<>>
    /\ triggers = DefaultTriggers
    /\ running = FALSE
    /\ frames = [t \in Threads |-> NoLoop]
    /\ last = NoCall
    /\ before_buy = <<>>
    /\ clock = _cache_duration
    /\ fetcher = NoCache
    /\ cycle = [t \in Threads |-> NoPass]
    /\ handler = NoRequest
    /\ funds = [start |-> DictGet(paper_balance, "USDT", R(0)), net |-> R(0)]

Init == InitWith(InitFiles, {FALSE})

\* ------------------------------------------------------------------------
\* Inputs
\* ------------------------------------------------------------------------

Symbols == {DEFAULT_COINS[1], DEFAULT_COINS[2]}

Prices == {R(0), R(10), R(11)}

Amounts == {NoneVal, R(0), R(-5), R(5), R(100), R(2000)}

SignalTypes == {"BUY", "SELL", "HOLD"}

Signal(signal_type, symbol, price, reasons) ==
    [signal_type |-> signal_type, symbol |-> symbol, price |-> price,
     reasons |-> reasons]

\* What the exchange adapter answers to a market order: it raises, fills at
\* the requested price, reports an order still open at another price, or
\* reports an order with 'average' or 'fee' present and None.
AdapterResults ==
    {[raises |-> TRUE, id |-> "-", status |-> "-", average |-> Missing,
      fee |-> Missing],
     [raises |-> FALSE, id |-> "X1", status |-> "closed", average |-> Missing,
      fee |-> Missing],
     [raises |-> FALSE, id |-> "X2", status |-> "open", average |-> R(12),
      fee |-> R(1)],
     [raises |-> FALSE, id |-> "X3", status |-> "closed", average |-> NoneVal,
      fee |-> Missing],
     [raises |-> FALSE, id |-> "X4", status |-> "closed", average |-> Missing,
      fee |-> NoneVal]}

\* ------------------------------------------------------------------------
\* Actions: sequential callers
\* ------------------------------------------------------------------------

\* No polling-loop thread is inside execute_signal.
AllIdle == \A t \in Threads : frames[t].pc \in {"none", "loop"}

\* The history kept of a call that returned out: a buy that returned an Order
\* is remembered with the balance and the order count it started from.
RememberBuy(signal, out) ==
    IF signal.signal_type = "BUY" /\ out.ret # <<>>
    THEN DictPut(before_buy, signal.symbol,
                 [balance |-> DictGet(paper_balance, "USDT", R(0)),
                  orders |-> Len(orders)])
    ELSE before_buy

\* One call of execute_signal, start to return.
ExecuteSignal(signal, amount_usdt, res) ==
    /\ AllIdle
    /\ before_buy' = RememberBuy(signal, execute_signal(Cur, signal, amount_usdt, res))
    /\ LET out == execute_signal(Cur, signal, amount_usdt, res)
       IN  /\ Becomes(out.st)
           /\ last' = [op |-> "execute_signal", signal |-> signal,
                       indicators |-> NoIndicators,
                       amount |-> amount_usdt, res |-> res, ret |-> out.ret,
                       raised |-> out.raised, pre |-> <<Cur>>, data |-> <<>>,
                       pre_triggers |-> <<>>]
    /\ UNCHANGED <<triggers, running, frames,
                   clock, fetcher, cycle, handler, funds>>

\* POST /api/mode
set_mode(pm) ==
    /\ AllIdle
    /\ pm # paper_mode
    /\ paper_mode' = pm
    /\ last' = [NoCall EXCEPT !.op = "set_mode", !.pre = <<Cur>>]
    /\ UNCHANGED <<exchange, paper_balance, orders, trades, order_counter,
                   trade_counter, file, disk, positions, triggers, running, frames,
                   before_buy,
                   clock, fetcher, cycle, handler, funds>>

\* The adapter results an execute_signal call can meet in the current mode.
ResultsNow == IF paper_mode THEN {NoAdapter} ELSE AdapterResults

\* Some caller calls execute_signal with a signal and an amount drawn from
\* these sets, while fewer than max_orders orders are recorded.
CallExecute(types, syms, prices, amounts, max_orders) ==
    /\ Len(orders) < max_orders
    /\ \E t \in types, s \in syms, p \in prices, amount_usdt \in amounts,
          res \in ResultsNow :
           ExecuteSignal(Signal(t, s, p, <<>>), amount_usdt, res)

\* Paper trading of two symbols, every kind of signal, price and amount.
Next == CallExecute(SignalTypes, Symbols, Prices, Amounts, MaxOrders)

Spec == Init /\ [][Next]_vars

\* ------------------------------------------------------------------------
\* Reading the last call
\* ------------------------------------------------------------------------

\* The last completed call was execute_signal.
Called == last.op = "execute_signal"

\* The state the last call started from.
Pre == last.pre[1]

\* The last call left the executor, the ledger file and the positions as they were.
Untouched == Cur = Pre

\* The paper balance in the quote currency.
Balance(S) == DictGet(S.paper_balance, "USDT", R(0))

\* The last call was execute_signal in paper mode with a signal of this type.
PaperCall(signal_type) ==
    /\ Called
    /\ Pre.paper_mode
    /\ last.signal.signal_type = signal_type

\* The requested amount is a number within the configured limits.
AmountAccepted(a) ==
    /\ IsNum(a)
    /\ RLe(R(MIN_TRADE_AMOUNT_USDT), a)
    /\ RLe(a, R(MAX_TRADE_AMOUNT_USDT))

\* ------------------------------------------------------------------------
\* Claims
\* ------------------------------------------------------------------------

\* C1: in paper mode a BUY at price p > 0 with an accepted amount a, for a
\* symbol that can open a position and with balance >= a, debits the balance
\* by exactly a (the fee a*0.001 is only recorded on the order), appends one
\* filled Order, creates one open Trade with entry_price p and quantity a/p,
\* and adds the symbol's Position.
C1_PaperBuy ==
    LET a == last.amount
        p == last.signal.price
        sym == last.signal.symbol
    IN  ( /\ PaperCall("BUY")
          /\ RLt(R(0), p)
          /\ AmountAccepted(a)
          /\ can_open_position(Pre, sym)
          /\ RLe(a, Balance(Pre)) )
        =>
        ( /\ ~last.raised
          /\ Len(last.ret) = 1
          /\ paper_balance = [Pre.paper_balance EXCEPT !["USDT"] = RSub(@, a)]
          /\ orders = Append(Pre.orders, last.ret[1])
          /\ last.ret[1].status = "filled"
          /\ last.ret[1].side = "buy"
          /\ last.ret[1].symbol = sym
          /\ last.ret[1].quantity = RDiv(a, p)
          /\ last.ret[1].filled_price = p
          /\ last.ret[1].fee = RMul(a, Rat(1, 1000))
          /\ Len(trades) = Len(Pre.trades) + 1
          /\ SubSeq(trades, 1, Len(Pre.trades)) = Pre.trades
          /\ trades[Len(trades)].status = "open"
          /\ trades[Len(trades)].symbol = sym
          /\ trades[Len(trades)].entry_price = p
          /\ trades[Len(trades)].quantity = RDiv(a, p)
          /\ DOMAIN positions = DOMAIN Pre.positions \cup {sym}
          /\ positions[sym] = Position(sym, p, RDiv(a, p))
          /\ \A x \in DOMAIN Pre.positions : positions[x] = Pre.positions[x] )

\* C1 witness: balance 10000, amount 100, price 10 gave balance 9900 and
\* quantity 10.
C1_Witness ==
    /\ PaperCall("BUY")
    /\ last.amount = R(100)
    /\ last.signal.price = R(10)
    /\ Balance(Pre) = R(10000)
    /\ Balance(Cur) = R(9900)
    /\ Len(last.ret) = 1
    /\ last.ret[1].quantity = R(10)

\* C2: in paper mode a SELL at price p (the amount passing validation) for a
\* symbol with an open Position (quantity q, entry price e) credits the balance
\* by exactly q*p, appends one filled Order with fee q*p*0.001, closes the
\* first open Trade of the symbol with exit_price p, pnl q*p - q*e and
\* pnl_percent pnl/(q*e)*100, and removes the Position.
C2_PaperSell ==
    LET p == last.signal.price
        sym == last.signal.symbol
        a == AmountOrDefault(last.amount)
    IN  ( /\ PaperCall("SELL")
          /\ RLe(R(MIN_TRADE_AMOUNT_USDT), a)
          /\ sym \in DOMAIN Pre.positions )
        =>
        LET q == Pre.positions[sym].quantity
            e == Pre.positions[sym].entry_price
            pnl == RSub(RMul(q, p), RMul(q, e))
            i == FirstOpenTrade(Pre.trades, sym)
        IN  /\ ~last.raised
            /\ Len(last.ret) = 1
            /\ paper_balance = [Pre.paper_balance EXCEPT !["USDT"] = RAdd(@, RMul(q, p))]
            /\ orders = Append(Pre.orders, last.ret[1])
            /\ last.ret[1].status = "filled"
            /\ last.ret[1].side = "sell"
            /\ last.ret[1].symbol = sym
            /\ last.ret[1].quantity = q
            /\ last.ret[1].fee = RMul(RMul(q, p), Rat(1, 1000))
            /\ i # 0
            /\ Len(trades) = Len(Pre.trades)
            /\ \A j \in 1..Len(trades) : j # i => trades[j] = Pre.trades[j]
            /\ trades[i] = [Pre.trades[i] EXCEPT
                              !.status = "closed", !.exit_price = p,
                              !.exit_time = "now", !.pnl = pnl,
                              !.pnl_percent = RMul(RDiv(pnl, RMul(q, e)), R(100))]
            /\ DOMAIN positions = DOMAIN Pre.positions \ {sym}
            /\ \A x \in DOMAIN positions : positions[x] = Pre.positions[x]

\* C2 witness: quantity 10 bought at 10 and sold at 11 gave pnl 10,
\* pnl_percent 10 and balance 9900 -> 10010.
C2_Witness ==
    /\ PaperCall("SELL")
    /\ last.signal.price = R(11)
    /\ Len(last.ret) = 1
    /\ last.ret[1].quantity = R(10)
    /\ Balance(Pre) = R(9900)
    /\ Balance(Cur) = R(10010)
    /\ \E i \in 1..Len(trades) :
          /\ trades[i].status = "closed"
          /\ trades[i].entry_price = R(10)
          /\ trades[i].pnl = R(10)
          /\ trades[i].pnl_percent = R(10)

\* The last call was a paper SELL that returned an Order and closed a round
\* trip: the symbol's position had been bought by the order recorded just
\* before, in paper mode, at the price it is now sold at.
RoundTrip ==
    LET sym == last.signal.symbol
        n == Len(Pre.orders)
    IN  /\ PaperCall("SELL")
        /\ Len(last.ret) = 1
        /\ sym \in DOMAIN before_buy
        /\ before_buy[sym].orders + 1 = n
        /\ Pre.orders[n].side = "buy"
        /\ Pre.orders[n].symbol = sym
        /\ Pre.orders[n].is_paper
        /\ Pre.orders[n].filled_price = last.signal.price

\* The two simulated fees of the round trip the last call closed.
RoundTripFees == RAdd(Pre.orders[Len(Pre.orders)].fee, last.ret[1].fee)

\* The trade the last call closed.
ClosedTrade == trades[FirstOpenTrade(Pre.trades, last.signal.symbol)]

\* C3 as stated: a BUY at price p followed by a SELL of the same symbol at the
\* same price yields a closed trade with pnl of 0 minus the two 0.1% fees and
\* leaves the paper balance at its pre-buy value minus the fees.
C3_RoundTripNetOfFees ==
    RoundTrip =>
        /\ ClosedTrade.status = "closed"
        /\ ClosedTrade.pnl = RSub(R(0), RoundTripFees)
        /\ Balance(Cur) = RSub(before_buy[last.signal.symbol].balance, RoundTripFees)

\* C3 amended: the round trip yields a closed trade with pnl exactly 0 and
\* pnl_percent 0 and leaves the paper balance exactly at its pre-buy value; the
\* two fees, each 0.1% of quantity*price, are recorded on the two orders only.
C3_RoundTripExact ==
    RoundTrip =>
        LET buy == Pre.orders[Len(Pre.orders)]
            value == RMul(buy.quantity, last.signal.price)
        IN  /\ ClosedTrade.status = "closed"
            /\ ClosedTrade.pnl = R(0)
            /\ ClosedTrade.pnl_percent = R(0)
            /\ Balance(Cur) = before_buy[last.signal.symbol].balance
            /\ buy.fee = RMul(value, Rat(1, 1000))
            /\ last.ret[1].fee = RMul(value, Rat(1, 1000))

\* C3 witness: a round trip at price 11 with fees above 0 has been closed.
C3_Witness ==
    /\ RoundTrip
    /\ last.signal.price = R(11)
    /\ RLt(R(0), RoundTripFees)
    /\ ClosedTrade.status = "closed"

\* C4 as stated: for every BUY or SELL signal and every requested amount below
\* the configured minimum of 10 (zero and negative amounts included),
\* execute_signal returns no Order and leaves balance, orders, trades and
\* positions unchanged.
C4_BelowMinimumRejected ==
    ( /\ Called
      /\ last.signal.signal_type \in {"BUY", "SELL"}
      /\ IsNum(last.amount)
      /\ RLt(last.amount, R(MIN_TRADE_AMOUNT_USDT)) )
    =>
    ( /\ last.ret = <<>>
      /\ Untouched )

\* The cost quantity*price of the buy the last call asked for.
BuyCost ==
    LET a == Capped(AmountOrDefault(last.amount))
    IN  RMul(RDiv(a, last.signal.price), last.signal.price)

\* The last call was a paper BUY that passed the amount, price and capacity
\* checks and so reached the balance check.
PaperBuyReachedBalanceCheck ==
    /\ PaperCall("BUY")
    /\ RLe(R(MIN_TRADE_AMOUNT_USDT), AmountOrDefault(last.amount))
    /\ RLt(R(0), last.signal.price)
    /\ can_open_position(Pre, last.signal.symbol)

\* C5: a paper BUY whose cost quantity*price is greater than the balance
\* produces no Order, Trade or Position and leaves the balance unchanged; one
\* whose cost equals the balance exactly is accepted and leaves the balance 0.
C5_BalanceCheck ==
    PaperBuyReachedBalanceCheck =>
        /\ RLt(Balance(Pre), BuyCost) => (last.ret = <<>> /\ Untouched)
        /\ BuyCost = Balance(Pre) =>
              /\ Len(last.ret) = 1
              /\ Balance(Cur) = R(0)
              /\ last.signal.symbol \in DOMAIN positions

\* C5 witness: a buy costing exactly the balance of 100 was accepted and left
\* 0, and the next buy, costing more than 0, has been rejected.
C5_Witness ==
    /\ PaperBuyReachedBalanceCheck
    /\ RLt(Balance(Pre), BuyCost)
    /\ last.ret = <<>>
    /\ Balance(Pre) = R(0)
    /\ Len(orders) = 1
    /\ RMul(orders[1].quantity, orders[1].price) = R(100)
    /\ before_buy[orders[1].symbol].balance = R(100)

\* ------------------------------------------------------------------------
\* Six symbols and five position slots
\* ------------------------------------------------------------------------

\* One symbol more than there are position slots.
CapSymbols == {DEFAULT_COINS[i] : i \in 1..(MAX_OPEN_POSITIONS + 1)}

\* A BUY of any of the six symbols, at price 10 and the default amount.
BuyAnySymbol == CallExecute({"BUY"}, CapSymbols, {R(10)}, {NoneVal}, MaxCapOrders)

\* A SELL of the first or the second symbol, at price 11.
SellFirstSymbols == CallExecute({"SELL"}, Symbols, {R(11)}, {NoneVal}, MaxCapOrders)

NextCap == BuyAnySymbol \/ SellFirstSymbols

SpecCap == Init /\ [][NextCap]_vars

\* Position records the store holds for one symbol.
PositionCount(sym) ==
    Cardinality({x \in DOMAIN positions : positions[x].symbol = sym})

\* C6: after any sequence of execute_signal calls the number of open Positions
\* is at most MAX_OPEN_POSITIONS = 5 and no symbol has more than
\* MAX_POSITION_PER_COIN = 1 open Position.
C6_PositionLimits ==
    /\ Cardinality(DOMAIN positions) <= MAX_OPEN_POSITIONS
    /\ \A sym \in CapSymbols : PositionCount(sym) <= MAX_POSITION_PER_COIN

\* C6 witness: a BUY has just opened the fifth position.
C6_Witness ==
    /\ Called
    /\ last.signal.signal_type = "BUY"
    /\ Len(last.ret) = 1
    /\ Cardinality(DOMAIN Pre.positions) = MAX_OPEN_POSITIONS - 1
    /\ Cardinality(DOMAIN positions) = MAX_OPEN_POSITIONS

\* C8: can_open_position(symbol) is false whenever the symbol has an open
\* Position, and false for every symbol whenever MAX_OPEN_POSITIONS positions
\* are open; a BUY for which it is false returns no Order and changes no state.
C8_CannotOpenRejected ==
    /\ \A sym \in DOMAIN positions : ~can_open_position(Cur, sym)
    /\ Cardinality(DOMAIN positions) = MAX_OPEN_POSITIONS
          => \A sym \in CapSymbols : ~can_open_position(Cur, sym)
    /\ ( /\ Called
         /\ last.signal.signal_type = "BUY"
         /\ ~can_open_position(Pre, last.signal.symbol) )
       => ( last.ret = <<>> /\ ~last.raised /\ Untouched )

\* C8 witness: with five positions open, a BUY of the sixth symbol, which has
\* no position, has been rejected.
C8_Witness ==
    /\ Called
    /\ last.signal.signal_type = "BUY"
    /\ Cardinality(DOMAIN Pre.positions) = MAX_OPEN_POSITIONS
    /\ last.signal.symbol \notin DOMAIN Pre.positions
    /\ last.ret = <<>>
    /\ Untouched

\* ------------------------------------------------------------------------
\* Two polling loops (src/web/app.py)
\*
\* start_bot starts a loop thread whenever bot_state['running'] is false, and
\* stop_bot only clears the flag: a loop that sleeps through a stop followed
\* by a start goes on beside the new one.  Each loop calls execute_signal
\* without an amount.  Nothing in execute_signal is locked, so another thread
\* can run between the capacity check of _execute_buy and the placing of the
\* buy (in live mode the exchange call lies between them).
\* ------------------------------------------------------------------------

\* POST /api/bot/start, taken while the bot is stopped.
start_bot ==
    /\ ~running
    /\ running' = TRUE
    /\ \E t \in Threads :
          /\ frames[t].pc = "none"
          /\ \A u \in Threads : frames[u].pc = "none" => t <= u
          /\ frames' = [frames EXCEPT ![t] = InLoop]
    /\ UNCHANGED <<paper_mode, exchange, paper_balance, orders, trades,
                   order_counter, trade_counter, file, disk, positions, triggers,
                   last, before_buy,
                   clock, fetcher, cycle, handler, funds>>

\* POST /api/bot/stop
stop_bot ==
    /\ running
    /\ running' = FALSE
    /\ UNCHANGED <<paper_mode, exchange, paper_balance, orders, trades,
                   order_counter, trade_counter, file, disk, positions, triggers,
                   frames, last, before_buy,
                   clock, fetcher, cycle, handler, funds>>

\* A loop that finds the flag cleared and sleeps on instead of returning.
LoopExits_sleeps_on(t) ==
    /\ frames[t].pc = "loop"
    /\ frames[t].checks = 0
    /\ ~running
    /\ UNCHANGED vars

\* run_bot_loop finds the flag cleared and returns; the flag is tested between
\* two passes over the coins, never inside one.
LoopExits(t) ==
    /\ frames[t].pc = "loop"
    /\ frames[t].checks = 0
    /\ ~running
    /\ frames' = [frames EXCEPT ![t] = NoLoop]
    /\ UNCHANGED <<paper_mode, exchange, paper_balance, orders, trades,
                   order_counter, trade_counter, file, disk, positions, triggers,
                   running, last, before_buy,
                   clock, fetcher, cycle, handler, funds>>

\* The record of a completed execute_signal call of a loop.
LoopCall(signal, res, out) ==
    [op |-> "execute_signal", signal |-> signal, indicators |-> NoIndicators,
     amount |-> NoneVal, res |-> res, ret |-> out.ret, raised |-> out.raised,
     pre |-> <<Cur>>, data |-> <<>>, pre_triggers |-> <<>>]

\* A loop calls execute_signal with a BUY signal and runs it up to the
\* capacity check of _execute_buy: a rejected call returns, an admitted one
\* goes on with its symbol, price and quantity.
LoopBeginsBuy(t, sym, p) ==
    LET signal == Signal("BUY", sym, p, <<>>)
        amount == AmountOrDefault(NoneVal)
    IN  /\ frames[t].pc = "loop"
        /\ running
        /\ Len(orders) < MaxRaceOrders
        /\ IF /\ ~RLt(amount, R(MIN_TRADE_AMOUNT_USDT))
              /\ BuyAdmitted(Cur, signal)
           THEN /\ frames' = [frames EXCEPT ![t] =
                                 [@ EXCEPT !.pc = "buy", !.signal = signal,
                                           !.quantity = RDiv(Capped(amount), p)]]
                /\ UNCHANGED last
           ELSE /\ last' = LoopCall(signal, NoAdapter, Returns(Cur, <<>>))
                /\ UNCHANGED frames
        /\ UNCHANGED <<paper_mode, exchange, paper_balance, orders, trades,
                       order_counter, trade_counter, file, disk, positions, triggers,
                       running, before_buy,
                       clock, fetcher, cycle, handler, funds>>

\* The loop's buy is placed, in the mode the executor is in now, and returns.
LoopFinishesBuy(t, res) ==
    /\ frames[t].pc = "buy"
    /\ LET f == frames[t]
           out == PlaceBuy(Cur, f.signal.symbol, f.quantity, f.signal.price,
                           f.signal, res)
       IN  /\ Becomes(out.st)
           /\ last' = LoopCall(f.signal, res, out)
           /\ before_buy' = RememberBuy(f.signal, out)
    /\ frames' = [frames EXCEPT ![t] =
                     [@ EXCEPT !.pc = "loop", !.signal = NoSignal,
                               !.quantity = NoneVal]]
    /\ UNCHANGED <<triggers, running,
                   clock, fetcher, cycle, handler, funds>>

\* A loop calls execute_signal with a SELL signal, start to return.
LoopSells(t, sym, p, res) ==
    /\ frames[t].pc = "loop"
    /\ running
    /\ Len(orders) < MaxRaceOrders
    /\ LET signal == Signal("SELL", sym, p, <<>>)
           out == execute_signal(Cur, signal, NoneVal, res)
       IN  /\ Becomes(out.st)
           /\ last' = LoopCall(signal, res, out)
    /\ UNCHANGED <<triggers, running, frames, before_buy,
                   clock, fetcher, cycle, handler, funds>>

NextRace ==
    \/ start_bot
    \/ stop_bot
    \/ \E t \in Threads : LoopExits(t)
    \/ \E t \in Threads, sym \in Symbols : LoopBeginsBuy(t, sym, R(10))
    \/ \E t \in Threads, res \in ResultsNow : LoopFinishesBuy(t, res)
    \/ \E t \in Threads, sym \in Symbols, res \in ResultsNow :
          LoopSells(t, sym, R(11), res)

\* The executor is built in paper or in live mode, with no ledger file.
InitRace == InitWith({<<>>}, BOOLEAN)

SpecRace == InitRace /\ [][NextRace]_vars

\* Trades of the symbol with status open.
OpenTrades(sym) ==
    {i \in 1..Len(trades) : trades[i].symbol = sym /\ trades[i].status = "open"}

\* C7 as stated: in every reachable state there is at most one Trade with
\* status open per symbol, in paper or live mode and for any interleaving of
\* the callers of execute_signal.
C7_OneOpenTradePerSymbol ==
    \A sym \in Symbols : Cardinality(OpenTrades(sym)) <= 1

\* ------------------------------------------------------------------------
\* StrategyEngine: triggers and evaluate (core/strategy.py, from its
\* description), and the polling loop that calls it (src/web/app.py)
\* ------------------------------------------------------------------------

RGe(x, y) == RLe(y, x)

\* calculate_rise_from_entry: the percentage the price stands above the entry.
calculate_rise_from_entry(current_price, entry_price) ==
    IF RLe(entry_price, R(0)) THEN R(0)
    ELSE RMul(RDiv(RSub(current_price, entry_price), entry_price), R(100))

\* The entry price of the symbol's open Position (0 without one).
EntryPrice(S, symbol) ==
    IF get_position(S, symbol) = <<>> THEN R(0)
    ELSE get_position(S, symbol)[1].entry_price

BuyConditions == <<"rsi_below", "dip_percent", "volume_spike">>

SellConditions == <<"rsi_above", "rise_percent", "stop_loss", "take_profit">>

\* One buy condition against the snapshot.
BuyConditionHolds(T, indicators, c) ==
    IF c = "rsi_below" THEN RLe(indicators.rsi, T.buy.rsi_below)
    ELSE IF c = "dip_percent" THEN RGe(indicators.dip_percent, T.buy.dip_percent)
    ELSE RGe(indicators.volume_spike, T.buy.volume_spike)

\* One sell condition against the snapshot and the position's entry price.
SellConditionHolds(T, indicators, entry_price, c) ==
    LET rise == calculate_rise_from_entry(indicators.price, entry_price)
    IN  IF c = "rsi_above" THEN RGe(indicators.rsi, T.sell.rsi_above)
        ELSE IF c = "rise_percent" THEN RGe(rise, T.sell.rise_percent)
        ELSE IF c = "stop_loss" THEN RGe(RSub(R(0), rise), T.sell.stop_loss)
        ELSE RGe(rise, T.sell.take_profit)

\* The buy conditions that matched, in order.
BuyReasons(T, indicators) ==
    LET Matched(c) == BuyConditionHolds(T, indicators, c)
    IN  SelectSeq(BuyConditions, Matched)

\* The sell conditions that matched, in order (none is skipped).
SellReasons(T, indicators, entry_price) ==
    LET Matched(c) == SellConditionHolds(T, indicators, entry_price, c)
    IN  SelectSeq(SellConditions, Matched)

\* A buy fires on any matched condition instead of on all of them.
BuyFiresOnAny(T, indicators) == BuyReasons(T, indicators) # <<>>

\* The buy fires when every buy condition matched.
BuyFires(T, indicators) == BuyReasons(T, indicators) = BuyConditions

\* The sell evaluation is attempted whether or not a position is open.
SellAttemptedWithoutPosition(S, T, symbol) == T.sell.enabled

\* The sell evaluation is attempted for a symbol with an open Position.
SellAttempted(S, T, symbol) ==
    T.sell.enabled /\ get_position(S, symbol) # <<>>

\* The buy evaluation is attempted without looking at the sell side.
BuyAttempted(S, T, symbol) ==
    /\ T.buy.enabled
    /\ get_position(S, symbol) = <<>>
    /\ can_open_position(S, symbol)

evaluate(S, T, symbol, indicators) ==
    LET hold == Signal("HOLD", symbol, indicators.price, <<>>)
        sold == SellReasons(T, indicators, EntryPrice(S, symbol))
    IN  IF BuyAttempted(S, T, symbol) /\ BuyFires(T, indicators)
        THEN Signal("BUY", symbol, indicators.price, BuyReasons(T, indicators))
        ELSE IF SellAttempted(S, T, symbol) /\ sold # <<>>
        THEN Signal("SELL", symbol, indicators.price, sold)
        ELSE hold

\* POST /api/triggers with one field: the field is replaced, the others stay.
update_triggers(side, field, value) ==
    /\ triggers[side][field] # value
    /\ triggers' = [triggers EXCEPT ![side][field] = value]
    /\ last' = [NoCall EXCEPT !.op = "update_triggers", !.pre = <<Cur>>]
    /\ UNCHANGED <<paper_mode, exchange, paper_balance, orders, trades,
                   order_counter, trade_counter, file, disk, positions, running,
                   frames, before_buy,
                   clock, fetcher, cycle, handler, funds>>

\* An indicator snapshot as calculate_all_indicators returns it (the fields
\* evaluate reads).
Snapshot(price, rsi, dip_percent, volume_spike) ==
    [price |-> price, rsi |-> rsi, dip_percent |-> dip_percent,
     volume_spike |-> volume_spike]

\* The snapshots the loop meets: at price 10, an oversold coin with a dip and
\* a volume spike, and an overbought one with the same dip and volume.
Snapshots ==
    {Snapshot(R(10), R(30), R(5), Rat(3, 2)),
     Snapshot(R(10), R(70), R(5), Rat(3, 2))}

\* The coin the loop over bot_state['coins'] looks at after so many checks.
CoinAt(checks) == DEFAULT_COINS[(checks % Len(DEFAULT_COINS)) + 1]

\* One turn of the loop of check_for_signals: the coin's snapshot is
\* evaluated and a signal other than HOLD is executed with the default amount;
\* an exception is logged and the loop goes on with the next coin.
check_for_signals(t, indicators, res) ==
    /\ frames[t].pc = "loop"
    /\ running \/ frames[t].checks % Len(DEFAULT_COINS) # 0
    /\ frames[t].checks < MaxChecks
    /\ LET symbol == CoinAt(frames[t].checks)
           signal == evaluate(Cur, triggers, symbol, indicators)
           out == IF RLe(indicators.price, R(0)) \/ signal.signal_type = "HOLD"
                  THEN Returns(Cur, <<>>)
                  ELSE execute_signal(Cur, signal, NoneVal, res)
       IN  /\ Becomes(out.st)
           /\ last' = [op |-> "check_for_signals", signal |-> signal,
                       indicators |-> indicators, amount |-> NoneVal,
                       res |-> res, ret |-> out.ret, raised |-> out.raised,
                       pre |-> <<Cur>>, data |-> <<>>, pre_triggers |-> <<>>]
           /\ before_buy' = RememberBuy(signal, out)
    /\ frames' = [frames EXCEPT ![t].checks = @ + 1]
    /\ UNCHANGED <<triggers, running,
                   clock, fetcher, cycle, handler, funds>>

NextEval ==
    \/ start_bot
    \/ \E t \in Threads, indicators \in Snapshots, res \in ResultsNow :
          check_for_signals(t, indicators, res)
    \/ \E side \in {"buy", "sell"}, on \in BOOLEAN :
          update_triggers(side, "enabled", on)

\* A paper executor with no ledger file, a fresh strategy, the bot stopped.
InitEval == InitWith({<<>>}, {FALSE})

SpecEval == InitEval /\ [][NextEval]_vars

\* The snapshots evaluate is asked about in every reachable state: prices 5%
\* below, at, and 10% and 15% above an entry at 10, and indicator values on
\* either side of the default thresholds.
AskedSnapshots ==
    {Snapshot(p, R(rsi), R(dip), vol) :
        p \in {Rat(19, 2), R(10), R(11), Rat(23, 2)}, rsi \in {30, 31, 70},
        dip \in {4, 5}, vol \in {R(1), Rat(3, 2)}}

Coins == {DEFAULT_COINS[i] : i \in 1..Len(DEFAULT_COINS)}

Checked == last.op = "check_for_signals"

\* What evaluate returns now for the symbol and the snapshot.
Evaluated(sym, ind) == evaluate(Cur, triggers, sym, ind).signal_type

RsiLow(ind) == RLe(ind.rsi, triggers.buy.rsi_below)

DipDeep(ind) == RLe(triggers.buy.dip_percent, ind.dip_percent)

VolumeHigh(ind) == RLe(triggers.buy.volume_spike, ind.volume_spike)

\* How many of the three buy conditions the snapshot satisfies.
BuyConditionsMet(ind) ==
    (IF RsiLow(ind) THEN 1 ELSE 0) + (IF DipDeep(ind) THEN 1 ELSE 0)
    + (IF VolumeHigh(ind) THEN 1 ELSE 0)

\* BUY exactly when buy triggers are enabled, the symbol has no Position,
\* capacity is available and the three conditions hold together.
BuyIff(sym, ind) ==
    (Evaluated(sym, ind) = "BUY")
    <=> /\ triggers.buy.enabled
        /\ sym \notin DOMAIN positions
        /\ Cardinality(DOMAIN positions) < MAX_OPEN_POSITIONS
        /\ RsiLow(ind) /\ DipDeep(ind) /\ VolumeHigh(ind)

\* C9 as stated: evaluate returns BUY if and only if buy triggers are enabled,
\* no Position is open for the symbol, capacity is available and rsi <=
\* rsi_below, dip_percent >= dip threshold and volume_spike >= volume threshold
\* all hold; a snapshot satisfying only two of the three yields HOLD.
C9_TwoOfThreeYieldsHold ==
    \A sym \in Coins, ind \in AskedSnapshots :
        /\ BuyIff(sym, ind)
        /\ BuyConditionsMet(ind) = 2 => Evaluated(sym, ind) = "HOLD"

\* C9 amended: the same, where a snapshot satisfying only two of the three
\* never yields BUY, and yields HOLD for a symbol without an open Position.
C9_BuyNeedsAllThree ==
    \A sym \in Coins, ind \in AskedSnapshots :
        /\ BuyIff(sym, ind)
        /\ BuyConditionsMet(ind) = 2 => Evaluated(sym, ind) # "BUY"
        /\ BuyConditionsMet(ind) = 2 /\ sym \notin DOMAIN positions
              => Evaluated(sym, ind) = "HOLD"

\* C9 witness: with a Position open for another coin, so that a BUY has fired
\* and been executed, the loop has evaluated a snapshot satisfying two of the
\* three conditions for a coin free to be bought, and got HOLD.
C9_Witness ==
    /\ Checked
    /\ BuyConditionsMet(last.indicators) = 2
    /\ triggers.buy.enabled
    /\ can_open_position(Pre, last.signal.symbol)
    /\ Pre.positions # <<>>
    /\ last.signal.signal_type = "HOLD"
    /\ Untouched

\* The percentage the snapshot's price stands above the entry price of the
\* symbol's Position.
RiseFromEntry(sym, ind) ==
    LET entry == positions[sym].entry_price
    IN  RMul(RDiv(RSub(ind.price, entry), entry), R(100))

\* C10: evaluate returns SELL if and only if sell triggers are enabled, an open
\* Position exists for the symbol, and at least one of rsi >= rsi_above,
\* rise-from-entry >= rise_percent, drawdown-from-entry >= stop_loss,
\* profit-from-entry >= take_profit holds; it never returns SELL for a symbol
\* without an open Position.
C10_SellIff ==
    \A sym \in Coins, ind \in AskedSnapshots :
        /\ (Evaluated(sym, ind) = "SELL")
           <=> /\ triggers.sell.enabled
               /\ sym \in DOMAIN positions
               /\ \/ RLe(triggers.sell.rsi_above, ind.rsi)
                  \/ RLe(triggers.sell.rise_percent, RiseFromEntry(sym, ind))
                  \/ RLe(triggers.sell.stop_loss,
                         RSub(R(0), RiseFromEntry(sym, ind)))
                  \/ RLe(triggers.sell.take_profit, RiseFromEntry(sym, ind))
        /\ sym \notin DOMAIN positions => Evaluated(sym, ind) # "SELL"

\* C10 witness: the loop has evaluated a coin with an open Position to SELL and
\* the sell was executed, while another coin keeps its Position.
C10_Witness ==
    /\ Checked
    /\ last.signal.signal_type = "SELL"
    /\ last.signal.symbol \in DOMAIN Pre.positions
    /\ Len(last.ret) = 1
    /\ last.signal.symbol \notin DOMAIN positions
    /\ positions # <<>>

\* ------------------------------------------------------------------------
\* Claims on capacity after a sale, HOLD signals and the amount cap
\* ------------------------------------------------------------------------

\* The last call was execute_signal with a SELL signal and returned an Order.
Sold == Called /\ last.signal.signal_type = "SELL" /\ Len(last.ret) = 1

\* A BUY of the symbol at price 10 with the default amount, called now.
BuyAgain(sym) ==
    execute_signal(Cur, Signal("BUY", sym, R(10), <<>>), NoneVal, NoAdapter)

\* C11: after a successful SELL has closed the symbol's position,
\* can_open_position(symbol) is true again, the other open positions being
\* fewer than the maximum, and a BUY for that symbol succeeds again.
C11_CapacityRestored ==
    Sold =>
        LET sym == last.signal.symbol
        IN  /\ sym \notin DOMAIN positions
            /\ Cardinality(DOMAIN positions) < MAX_OPEN_POSITIONS
            /\ can_open_position(Cur, sym)
            /\ Len(BuyAgain(sym).ret) = 1
            /\ sym \in DOMAIN BuyAgain(sym).st.positions

\* C11 witness: with all five slots taken no symbol could open a position; the
\* sale of one of the five has made room for it again.
C11_Witness ==
    /\ Sold
    /\ Cardinality(DOMAIN Pre.positions) = MAX_OPEN_POSITIONS
    /\ ~can_open_position(Pre, last.signal.symbol)
    /\ can_open_position(Cur, last.signal.symbol)

\* C12: execute_signal with a HOLD signal returns nothing and changes nothing:
\* paper balance, orders, trades, positions and the ledger file are as before,
\* for any amount.
C12_HoldNoEffect ==
    (Called /\ last.signal.signal_type = "HOLD") =>
        /\ last.ret = <<>>
        /\ ~last.raised
        /\ Untouched

\* C12 witness: a HOLD for a symbol with an open position, with an amount
\* within the limits, has returned nothing.
C12_Witness ==
    /\ Called
    /\ last.signal.signal_type = "HOLD"
    /\ last.signal.symbol \in DOMAIN Pre.positions
    /\ last.amount = R(100)
    /\ last.ret = <<>>

\* C13: a paper BUY with a requested amount above MAX_TRADE_AMOUNT_USDT = 1000
\* that passes the price, capacity and balance checks is executed with
\* quantity maximum/price and cost exactly the maximum, and the balance is
\* debited by the maximum, never by the requested amount.
C13_AmountClamped ==
    LET p == last.signal.price
        max == R(MAX_TRADE_AMOUNT_USDT)
    IN  ( /\ PaperCall("BUY")
          /\ IsNum(last.amount)
          /\ RLt(max, last.amount)
          /\ RLt(R(0), p)
          /\ can_open_position(Pre, last.signal.symbol)
          /\ RLe(max, Balance(Pre)) )
        =>
        ( /\ Len(last.ret) = 1
          /\ last.ret[1].quantity = RDiv(max, p)
          /\ RMul(last.ret[1].quantity, last.ret[1].filled_price) = max
          /\ Balance(Cur) = RSub(Balance(Pre), max)
          /\ Balance(Cur) # RSub(Balance(Pre), last.amount) )

\* C13 witness: a BUY of 2000 at price 11 took 1000 off a balance of 10000.
C13_Witness ==
    /\ PaperCall("BUY")
    /\ last.amount = R(2000)
    /\ last.signal.price = R(11)
    /\ Len(last.ret) = 1
    /\ Balance(Pre) = R(10000)
    /\ Balance(Cur) = R(9000)

\* ------------------------------------------------------------------------
\* Trading through the exchange adapter, with the mode switched at run time
\* ------------------------------------------------------------------------

LivePrices == {R(-1), R(0), R(10)}

\* Every kind of signal for two symbols, with the default amount.
CallLive == CallExecute(SignalTypes, Symbols, LivePrices, {NoneVal}, MaxLiveOrders)

\* POST /api/mode with either mode.
SwitchMode == \E pm \in BOOLEAN : set_mode(pm)

NextLive == CallLive \/ SwitchMode

\* The executor is built in paper mode or in live mode, with no ledger file.
InitLive == InitWith({<<>>}, BOOLEAN)

SpecLive == InitLive /\ [][NextLive]_vars

\* The last call was execute_signal with a signal of this type.
CalledWith(signal_type) == Called /\ last.signal.signal_type = signal_type

\* The last call found the executor in live mode with an exchange to call.
OnExchange == ~Pre.paper_mode /\ Pre.exchange # "None"

\* C14: a BUY signal whose price is <= 0 is rejected in paper and in live
\* mode: no Order, Trade or Position is created and the balance is unchanged.
C14_BadPriceRejected ==
    (CalledWith("BUY") /\ RLe(last.signal.price, R(0))) =>
        /\ last.ret = <<>>
        /\ ~last.raised
        /\ Untouched

\* C14 witness: in live mode, with the exchange ready to fill the order, a BUY
\* at price -1 of a symbol free to be bought has been rejected.
C14_Witness ==
    /\ CalledWith("BUY")
    /\ OnExchange
    /\ ~last.res.raises
    /\ last.signal.price = R(-1)
    /\ can_open_position(Pre, last.signal.symbol)
    /\ last.ret = <<>>

\* C15: a SELL signal for a symbol with no open Position is rejected in both
\* modes: execute_signal returns nothing, no Order is created, no Trade is
\* closed and the balance is unchanged.
C15_SellWithoutPositionRejected ==
    (CalledWith("SELL") /\ last.signal.symbol \notin DOMAIN Pre.positions) =>
        /\ last.ret = <<>>
        /\ ~last.raised
        /\ Untouched

\* C15 witness: in live mode, with the exchange ready to fill the order and a
\* position open for the other symbol, a SELL at price 10 has been rejected.
C15_Witness ==
    /\ CalledWith("SELL")
    /\ OnExchange
    /\ ~last.res.raises
    /\ last.signal.price = R(10)
    /\ Pre.positions # <<>>
    /\ last.signal.symbol \notin DOMAIN Pre.positions
    /\ last.ret = <<>>

\* C16 as stated: in live mode, when a buy or a sell returns nothing, the
\* order list, the trades and the positions are exactly as before the call.
C16_LiveFailureCommitsNothing ==
    ( /\ Called
      /\ last.signal.signal_type \in {"BUY", "SELL"}
      /\ ~Pre.paper_mode
      /\ last.ret = <<>> )
    =>
    ( /\ orders = Pre.orders
      /\ trades = Pre.trades
      /\ positions = Pre.positions )

\* C17 as stated: execute_signal never raises; the caller receives an Order or
\* nothing.
C17_NeverRaises == Called => ~last.raised

\* ------------------------------------------------------------------------
\* Paper funds (src/core/executor.py) and their request handlers
\* (src/web/app.py)
\* ------------------------------------------------------------------------

\* The state with the paper balance set to this amount and the ledger saved.
WithBalance(S, amount) ==
    _save_trade_history([S EXCEPT !.paper_balance = DictPut(@, "USDT", amount)])

\* The methods return None, True or False: <<>>, <<TRUE>>, <<FALSE>>.
\* Mutant of deposit_paper_funds: the deposit is made in either mode.
deposit_paper_funds_any_mode(S, amount) ==
    Returns(WithBalance(S, RAdd(DictGet(S.paper_balance, "USDT", R(0)),
                                amount)), <<>>)

deposit_paper_funds(S, amount) ==
    IF S.paper_mode
    THEN Returns(WithBalance(S, RAdd(DictGet(S.paper_balance, "USDT", R(0)),
                                     amount)), <<>>)
    ELSE Returns(S, <<>>)

\* Mutant of withdraw_paper_funds: the whole balance cannot be withdrawn.
withdraw_paper_funds_strict(S, amount) ==
    LET current == DictGet(S.paper_balance, "USDT", R(0))
    IN  IF ~S.paper_mode THEN Returns(S, <<>>)
        ELSE IF RLt(amount, current)
        THEN Returns(WithBalance(S, RSub(current, amount)), <<TRUE>>)
        ELSE Returns(S, <<FALSE>>)

withdraw_paper_funds(S, amount) ==
    LET current == DictGet(S.paper_balance, "USDT", R(0))
    IN  IF ~S.paper_mode THEN Returns(S, <<>>)
        ELSE IF RLe(amount, current)
        THEN Returns(WithBalance(S, RSub(current, amount)), <<TRUE>>)
        ELSE Returns(S, <<FALSE>>)

reset_paper_funds(S, amount) ==
    IF S.paper_mode THEN Returns(WithBalance(S, amount), <<>>)
    ELSE Returns(S, <<>>)

\* The account of the funds put in and taken out, after a call in paper mode:
\* a deposit adds its amount, a withdrawal that reported success takes its
\* amount off; reset_paper_funds starts the account anew.
Funded(op, amount, out) ==
    IF op = "deposit_paper_funds" /\ paper_mode
    THEN [funds EXCEPT !.net = RAdd(@, amount)]
    ELSE IF op = "withdraw_paper_funds" /\ out.ret = <<TRUE>>
    THEN [funds EXCEPT !.net = RSub(@, amount)]
    ELSE IF op = "reset_paper_funds" /\ paper_mode
    THEN [start |-> amount, net |-> R(0)]
    ELSE funds

\* A handler has called a method of the executor that returned out.
WalletCall(op, amount, out) ==
    /\ AllIdle
    /\ Becomes(out.st)
    /\ last' = [NoCall EXCEPT !.op = op, !.amount = amount, !.ret = out.ret,
                              !.pre = <<Cur>>]
    /\ funds' = Funded(op, amount, out)
    /\ UNCHANGED <<triggers, running, frames, before_buy,
                   clock, fetcher, cycle, handler>>

\* POST /api/wallet/deposit: an amount that is not above 0 is turned away
\* without a call.
wallet_deposit(amount) ==
    /\ RLt(R(0), amount)
    /\ RLe(RAdd(DictGet(paper_balance, "USDT", R(0)), amount), R(WalletCeiling))
    /\ WalletCall("deposit_paper_funds", amount, deposit_paper_funds(Cur, amount))

\* POST /api/wallet/withdraw: an amount that is not above 0 is turned away
\* without a call.
wallet_withdraw(amount) ==
    /\ RLt(R(0), amount)
    /\ WalletCall("withdraw_paper_funds", amount,
                  withdraw_paper_funds(Cur, amount))

\* POST /api/wallet/reset
wallet_reset(amount) ==
    /\ IsNum(amount)
    /\ WalletCall("reset_paper_funds", amount, reset_paper_funds(Cur, amount))

\* BUY and SELL of the first coin at price 10 with the default amount.
TradeFirstCoin ==
    CallExecute({"BUY", "SELL"}, {DEFAULT_COINS[1]}, {R(10)}, {NoneVal},
                MaxWalletOrders)

NextWallet ==
    \/ TradeFirstCoin
    \/ wallet_deposit(R(50))
    \/ \E amount \in {R(0), R(50), R(100), R(250)} : wallet_withdraw(amount)
    \/ wallet_reset(R(100))

\* A paper executor that finds a ledger file with a balance of 100.
InitWallet == InitWith({LedgerWith(R(100))}, {FALSE})

SpecWallet == InitWallet /\ [][NextWallet]_vars

\* The ledger file holds the trades, the orders and the balance in memory.
FileIsMemory ==
    file = <<[trades |-> trades, orders |-> orders,
              paper_balance |-> paper_balance]>>

\* C20: withdraw_paper_funds(a) in paper mode: with a balance >= a the balance
\* decreases by exactly a, the ledger is saved and the call reports success;
\* otherwise the call is rejected and the balance and the file are unchanged.
C20_Withdraw ==
    (last.op = "withdraw_paper_funds" /\ Pre.paper_mode) =>
        IF RLe(last.amount, Balance(Pre))
        THEN /\ paper_balance =
                   [Pre.paper_balance EXCEPT !["USDT"] = RSub(@, last.amount)]
             /\ FileIsMemory
             /\ last.ret = <<TRUE>>
             /\ orders = Pre.orders /\ trades = Pre.trades
             /\ positions = Pre.positions
        ELSE /\ last.ret = <<FALSE>>
             /\ Untouched

\* C20 witness: the whole balance of 100 has been withdrawn while a buy was on
\* record; the withdrawal of 50 before had left 100.
C20_Witness ==
    /\ last.op = "withdraw_paper_funds"
    /\ last.amount = R(100)
    /\ Balance(Pre) = R(100)
    /\ Balance(Cur) = R(0)
    /\ Len(orders) >= 1
    /\ last.ret = <<TRUE>>

\* ------------------------------------------------------------------------
\* Startup: the process is started again and builds its executor anew
\* ------------------------------------------------------------------------

\* get_order_executor() in a new process: OrderExecutor() with the mode of
\* settings.PAPER_TRADING, empty orders and trades, counters at 0, and the
\* balance _load_trade_history finds; the strategy and bot_state are new too.
Startup ==
    /\ AllIdle
    /\ paper_mode' = TRUE
    /\ exchange' = "None"
    /\ paper_balance' = _load_trade_history(file)
    /\ orders' = <<>>
    /\ trades' = <<>>
    /\ order_counter' = 0
    /\ trade_counter' = 0
    /\ positions' = <<>>
    /\ triggers' = DefaultTriggers
    /\ running' = FALSE
    /\ frames' = [t \in Threads |-> NoLoop]
    /\ last' = [NoCall EXCEPT !.op = "__init__", !.pre = <<Cur>>]
    /\ before_buy' = <<>>
    /\ fetcher' = NoCache
    /\ cycle' = [t \in Threads |-> NoPass]
    /\ handler' = NoRequest
    /\ funds' = [start |-> DictGet(_load_trade_history(file), "USDT", R(0)),
                 net |-> R(0)]
    /\ UNCHANGED <<file, disk, clock>>

\* BUY and SELL of two symbols at price 10, asking for 2000 a trade.
TradeLarge ==
    CallExecute({"BUY", "SELL"}, Symbols, {R(10)}, {R(2000)}, MaxOrders)

NextStartup == TradeLarge \/ Startup

\* A paper executor that finds no ledger file, an unreadable one, or one with a
\* balance of 100.
InitStartup == InitWith({<<>>, UnreadableLedger, LedgerWith(R(100))}, {FALSE})

SpecStartup == InitStartup /\ [][NextStartup]_vars

\* The executor has just been built.
Built == last.op \in {"init", "__init__"}

\* The ledger file is there and holds a paper balance.
LedgerRead == file # <<>> /\ "paper_balance" \in DOMAIN file[1]

\* C19: on startup with a ledger file present the executor restores only the
\* paper balance, which equals the file's paper_balance; its orders and trades
\* are empty and both id counters are 0 whatever the file holds.  With no
\* file, or an unreadable one, the balance is 10000 USDT.
C19_StartupRestoresBalance ==
    Built =>
        /\ orders = <<>>
        /\ trades = <<>>
        /\ order_counter = 0
        /\ trade_counter = 0
        /\ LedgerRead => paper_balance = file[1].paper_balance
        /\ ~LedgerRead => paper_balance = [c \in {"USDT"} |-> R(10000)]

\* C19 witness: the executor was built anew over a file that holds two orders
\* and a trade; it has the file's balance of 9000 and no orders or trades.
C19_Witness ==
    /\ last.op = "__init__"
    /\ LedgerRead
    /\ Len(file[1].orders) = 2
    /\ Len(file[1].trades) >= 1
    /\ orders = <<>>
    /\ trades = <<>>
    /\ Balance(Cur) = R(9000)

\* The last operation changed the orders, the trades or the paper balance.
LedgerChanged ==
    /\ last.op \in {"execute_signal", "deposit_paper_funds",
                    "withdraw_paper_funds", "reset_paper_funds"}
    /\ \/ orders # Pre.orders
       \/ trades # Pre.trades
       \/ paper_balance # Pre.paper_balance

\* C18 as stated: after every operation that changes the orders, the trades or
\* the paper balance (paper or live buy or sell, deposit, withdraw, reset) the
\* ledger file holds exactly the trades, orders and paper_balance in memory.
C18_FileMatchesMemory == LedgerChanged => FileIsMemory

\* ------------------------------------------------------------------------
\* Paper funds in live mode
\* ------------------------------------------------------------------------

\* The wallet handlers, trading of the first coin and POST /api/mode, on an
\* executor built in either mode over a ledger with a balance of 100.
NextWalletModes == NextWallet \/ SwitchMode

InitWalletModes == InitWith({LedgerWith(R(100))}, BOOLEAN)

SpecWalletModes == InitWalletModes /\ [][NextWalletModes]_vars

\* The last call was one of the three paper-funds methods.
FundsCall ==
    last.op \in {"deposit_paper_funds", "withdraw_paper_funds",
                 "reset_paper_funds"}

\* C21: in live mode deposit_paper_funds, withdraw_paper_funds and
\* reset_paper_funds leave the paper balance and the ledger file (and the
\* rest of the executor) unchanged; the balance changes only in paper mode.
C21_FundsOnlyInPaperMode ==
    FundsCall =>
        /\ ~Pre.paper_mode => (Untouched /\ last.ret = <<>>)
        /\ paper_balance # Pre.paper_balance => Pre.paper_mode

\* C21 witness: a deposit of 50 was called in live mode after a withdrawal in
\* paper mode had changed the ledger; the balance is still 50.
C21_Witness ==
    /\ last.op = "deposit_paper_funds"
    /\ ~Pre.paper_mode
    /\ last.amount = R(50)
    /\ Balance(Cur) = R(50)
    /\ file = LedgerWith(R(50))

\* ------------------------------------------------------------------------
\* POST /api/triggers (src/web/app.py) and StrategyEngine.update_triggers
\* ------------------------------------------------------------------------

\* The fields of one side of the request body merged into that side of the
\* TriggerConfig: a supplied field takes the supplied value as it is.
MergedSide(old, supplied) ==
    [f \in DOMAIN old |-> IF f \in DOMAIN supplied THEN supplied[f] ELSE old[f]]

\* Mutant of MergedTriggers: a side of the body replaces that side of the
\* defaults.
MergedOverDefaults(T, data) ==
    [side \in DOMAIN T |->
        IF side \in DOMAIN data /\ DOMAIN data[side] # {}
        THEN MergedSide(DefaultTriggers[side], data[side])
        ELSE T[side]]

\* update_triggers(partial_fields): only the supplied fields are merged.
MergedTriggers(T, data) ==
    [side \in DOMAIN T |->
        IF side \in DOMAIN data THEN MergedSide(T[side], data[side])
        ELSE T[side]]

\* POST /api/triggers: the JSON body goes to update_triggers unchecked.
manage_triggers(data) ==
    /\ triggers' = MergedTriggers(triggers, data)
    /\ last' = [NoCall EXCEPT !.op = "manage_triggers", !.pre = <<Cur>>,
                              !.data = <<data>>, !.pre_triggers = <<triggers>>]
    /\ UNCHANGED <<paper_mode, exchange, paper_balance, orders, trades,
                   order_counter, trade_counter, file, disk, positions, running,
                   frames, before_buy,
                   clock, fetcher, cycle, handler, funds>>

\* A request body with some of buy.rsi_below, buy.enabled and sell.stop_loss;
\* Missing (for enabled: <<>>) leaves the field out.
TriggerData(rsi_below, enabled, stop_loss) ==
    [buy |->
        [f \in {x \in {"rsi_below", "enabled"} :
                    \/ x = "rsi_below" /\ rsi_below # Missing
                    \/ x = "enabled" /\ enabled # <<>>}
            |-> IF f = "rsi_below" THEN rsi_below ELSE enabled[1]],
     sell |->
        [f \in {x \in {"stop_loss"} : stop_loss # Missing} |-> stop_loss]]

\* The bodies the dashboard or any other client sends.
PostTriggers ==
    \E rsi_below \in {Missing, R(-5), R(25)},
       enabled \in {<<>>, <<TRUE>>, <<FALSE>>},
       stop_loss \in {Missing, R(0), R(-1)} :
        manage_triggers(TriggerData(rsi_below, enabled, stop_loss))

NextTriggers == PostTriggers \/ TradeFirstCoin

InitTriggers == InitWith({<<>>}, {FALSE})

SpecTriggers == InitTriggers /\ [][NextTriggers]_vars

\* The body and the TriggerConfig of the last POST /api/triggers.
PostedData == last.data[1]

PreTriggers == last.pre_triggers[1]

Supplied(side, f) == side \in DOMAIN PostedData /\ f \in DOMAIN PostedData[side]

\* C22: update_triggers changes exactly the supplied trigger fields (to the
\* supplied values), leaves every other buy and sell field as it was, and
\* changes no position, order, trade or balance.
C22_OnlySuppliedFieldsChange ==
    last.op = "manage_triggers" =>
        /\ DOMAIN triggers = DOMAIN PreTriggers
        /\ \A side \in DOMAIN triggers :
             /\ DOMAIN triggers[side] = DOMAIN PreTriggers[side]
             /\ \A f \in DOMAIN triggers[side] :
                    triggers[side][f] = IF Supplied(side, f)
                                        THEN PostedData[side][f]
                                        ELSE PreTriggers[side][f]
        /\ Untouched

\* C22 witness: a body with only buy.rsi_below = 25 arrived while stop_loss
\* was 0 and buying was disabled by earlier posts and a position was open; the
\* earlier values are still there.
C22_Witness ==
    /\ last.op = "manage_triggers"
    /\ PostedData = TriggerData(R(25), <<>>, Missing)
    /\ triggers.buy.rsi_below = R(25)
    /\ PreTriggers.buy.rsi_below = R(-5)
    /\ triggers.sell.stop_loss = R(0)
    /\ ~triggers.buy.enabled
    /\ triggers.sell.take_profit = R(15)
    /\ DOMAIN positions # {}

\* The numeric thresholds of the TriggerConfig.
Thresholds ==
    {<<"buy", "rsi_below">>, <<"buy", "dip_percent">>, <<"buy", "volume_spike">>,
     <<"sell", "rsi_above">>, <<"sell", "rise_percent">>, <<"sell", "stop_loss">>,
     <<"sell", "take_profit">>}

\* C23 as stated: in every reachable state, after any sequence of
\* update_triggers calls with arbitrary values, every trigger threshold is
\* non-negative.
C23_ThresholdsNonNegative ==
    \A th \in Thresholds : RLe(R(0), triggers[th[1]][th[2]])

\* ------------------------------------------------------------------------
\* The polling loop with the fetcher's price cache (src/web/app.py,
\* src/core/data_fetcher.py)
\* ------------------------------------------------------------------------

MaxCoins == 3

MaxClock == 40

\* bot_state['coins']: the first coins of the default list.
ConfiguredCoins == SubSeq(DEFAULT_COINS, 1, MaxCoins)

CoinSet == {ConfiguredCoins[i] : i \in 1..Len(ConfiguredCoins)}

\* The last price of a symbol on the exchange: every coin trades at 10.
MarketPrice(symbol) == R(10)

\* DataFetcher.get_current_prices(symbols): within _cache_duration seconds of
\* the last fetch the cached dict is returned, whatever symbols it holds;
\* otherwise the prices of the asked symbols are fetched and become the cache.
get_current_prices(F, now, symbols) ==
    IF now - F._cache_timestamp < _cache_duration
    THEN [fetcher |-> F, prices |-> F._price_cache]
    ELSE LET prices == [s \in symbols |-> MarketPrice(s)]
         IN  [fetcher |-> [_price_cache |-> prices, _cache_timestamp |-> now],
              prices |-> prices]

\* One turn of the loop of check_for_signals with the fetcher: the symbol's
\* price is asked for; a price that is not above 0 skips the symbol; otherwise
\* the indicators at that price are evaluated and a signal other than HOLD is
\* executed.  run_bot_loop tests bot_state['running'] before a pass only: the
\* turns after the first one of a pass are taken whatever the flag is.
check_symbol(t, snapshot, res) ==
    /\ frames[t].pc = "loop"
    /\ running \/ frames[t].checks > 0
    /\ frames[t].checks < Len(ConfiguredCoins)
    /\ LET symbol == ConfiguredCoins[frames[t].checks + 1]
           got == get_current_prices(fetcher, clock, {symbol})
           current_price == DictGet(got.prices, symbol, R(0))
           skipped == RLe(current_price, R(0))
           indicators == IF skipped THEN NoIndicators
                         ELSE [snapshot EXCEPT !.price = current_price]
           signal == IF skipped THEN NoSignal
                     ELSE evaluate(Cur, triggers, symbol, indicators)
           out == IF skipped \/ signal.signal_type = "HOLD"
                  THEN Returns(Cur, <<>>)
                  ELSE execute_signal(Cur, signal, NoneVal, res)
       IN  /\ fetcher' = got.fetcher
           /\ Becomes(out.st)
           /\ last' = [op |-> "check_symbol", signal |-> signal,
                       indicators |-> indicators, amount |-> NoneVal,
                       res |-> res, ret |-> out.ret, raised |-> out.raised,
                       pre |-> <<Cur>>, data |-> <<>>, pre_triggers |-> <<>>]
           /\ before_buy' = RememberBuy(signal, out)
           /\ cycle' = [cycle EXCEPT ![t].evaluated =
                           IF skipped THEN @ ELSE Append(@, symbol)]
    /\ frames' = [frames EXCEPT ![t].checks = @ + 1]
    /\ UNCHANGED <<triggers, running, clock, handler, funds>>

\* The pass over the coins is done: send_update asks for the prices of all
\* coins, and run_bot_loop sleeps STRATEGY_CHECK_INTERVAL seconds before the
\* next pass.
send_update(t) ==
    /\ frames[t].pc = "loop"
    /\ frames[t].checks = Len(ConfiguredCoins)
    /\ clock + STRATEGY_CHECK_INTERVAL <= MaxClock
    /\ fetcher' = get_current_prices(fetcher, clock, CoinSet).fetcher
    /\ cycle' = [cycle EXCEPT ![t] =
                    [evaluated |-> <<>>, finished |-> <<@.evaluated>>]]
    /\ frames' = [frames EXCEPT ![t].checks = 0]
    /\ clock' = clock + STRATEGY_CHECK_INTERVAL
    /\ UNCHANGED <<paper_mode, exchange, paper_balance, orders, trades,
                   order_counter, trade_counter, file, disk, positions, triggers,
                   running, last, before_buy, handler, funds>>

\* GET /api/prices: the dashboard asks for the prices of all coins.
get_prices ==
    /\ fetcher' = get_current_prices(fetcher, clock, CoinSet).fetcher
    /\ fetcher' # fetcher
    /\ UNCHANGED <<paper_mode, exchange, paper_balance, orders, trades,
                   order_counter, trade_counter, file, disk, positions, triggers,
                   running, frames, last, before_buy, clock, cycle, handler, funds>>

\* A call to the exchange or to CoinGecko takes as long as the cache lives.
SlowCall ==
    /\ clock + _cache_duration <= MaxClock
    /\ clock' = clock + _cache_duration
    /\ UNCHANGED <<paper_mode, exchange, paper_balance, orders, trades,
                   order_counter, trade_counter, file, disk, positions, triggers,
                   running, frames, last, before_buy, fetcher, cycle, handler, funds>>

NextPoll ==
    \/ start_bot
    \/ \E t \in Threads, snapshot \in Snapshots, res \in ResultsNow :
          check_symbol(t, snapshot, res)
    \/ \E t \in Threads : send_update(t)
    \/ get_prices
    \/ SlowCall

\* A paper executor with no ledger file and a fresh fetcher, the bot stopped.
InitPoll == InitWith({<<>>}, {FALSE})

SpecPoll == InitPoll /\ [][NextPoll]_vars

\* How often a symbol occurs in a sequence of symbols.
Times(symbol, seq) == Cardinality({i \in 1..Len(seq) : seq[i] = symbol})

\* C24 as stated, for a finished pass: in each pass of the polling loop every
\* configured symbol with a positive market price was evaluated exactly once.
C24_EveryPricedSymbolOncePerPass ==
    \A t \in Threads :
        cycle[t].finished # <<>> =>
            \A symbol \in CoinSet :
                RLt(R(0), MarketPrice(symbol)) =>
                    Times(symbol, cycle[t].finished[1]) = 1

\* A pass has finished in which every configured symbol was evaluated: the
\* dashboard had filled the cache with all prices just before the pass.
PassOverAllCoins ==
    \E t \in Threads :
        /\ cycle[t].finished # <<>>
        /\ cycle[t].finished[1] = ConfiguredCoins

\* ------------------------------------------------------------------------
\* A wallet request beside the polling loop.  The loop runs in a thread of
\* its own (Thread(target=run_bot_loop), src/web/app.py) and the executor has
\* no lock: between the read of paper_balance and the assignment to it in
\* deposit_paper_funds or withdraw_paper_funds the loop's thread can run
\* execute_signal.
\* ------------------------------------------------------------------------

MaxOverlap == 2

MaxOverlapOrders == 2

\* deposit_paper_funds or withdraw_paper_funds has read the balance.
FundsRead(op, amount) ==
    /\ handler.pc = "none"
    /\ RLt(R(0), amount)
    /\ paper_mode
    /\ handler' = [pc |-> op, amount |-> amount,
                   current |-> DictGet(paper_balance, "USDT", R(0)),
                   began |-> <<Cur>>, calls |-> <<>>]
    /\ UNCHANGED <<paper_mode, exchange, paper_balance, orders, trades,
                   order_counter, trade_counter, file, disk, positions, triggers,
                   running, frames, last, before_buy, clock, fetcher, cycle, funds>>

\* POST /api/wallet/deposit up to the read of the balance.
deposit_reads(amount) ==
    /\ RLe(RAdd(DictGet(paper_balance, "USDT", R(0)), amount), R(WalletCeiling))
    /\ FundsRead("deposit_paper_funds", amount)

\* POST /api/wallet/withdraw up to the read of the balance.
withdraw_reads(amount) ==
    /\ IsNum(amount)
    /\ FundsRead("withdraw_paper_funds", amount)

\* The rest of the method, from the value read: the assignment, the save and
\* the return.
FundsWrite(op, out) ==
    /\ handler.pc = op
    /\ Becomes(out.st)
    /\ last' = [NoCall EXCEPT !.op = op, !.amount = handler.amount,
                              !.ret = out.ret, !.pre = <<Cur>>]
    /\ handler' = [handler EXCEPT !.pc = "returned"]
    /\ funds' = Funded(op, handler.amount, out)
    /\ UNCHANGED <<triggers, running, frames, before_buy, clock, fetcher,
                   cycle>>

deposit_writes ==
    /\ handler.pc = "deposit_paper_funds"
    /\ FundsWrite("deposit_paper_funds",
                  Returns(WithBalance(Cur, RAdd(handler.current,
                                                handler.amount)), <<>>))

withdraw_writes ==
    /\ handler.pc = "withdraw_paper_funds"
    /\ FundsWrite("withdraw_paper_funds",
                  IF RLe(handler.amount, handler.current)
                  THEN Returns(WithBalance(Cur, RSub(handler.current,
                                                     handler.amount)), <<TRUE>>)
                  ELSE Returns(Cur, <<FALSE>>))

\* The handler's response is sent; the next request can come.
FundsDone ==
    /\ handler.pc = "returned"
    /\ handler' = NoRequest
    /\ UNCHANGED <<paper_mode, exchange, paper_balance, orders, trades,
                   order_counter, trade_counter, file, disk, positions, triggers,
                   running, frames, last, before_buy, clock, fetcher, cycle, funds>>

\* The polling loop calls execute_signal, start to return, with the default
\* amount; a call made while a wallet request is between its read and its
\* write is noted in the request's history.
loop_execute_signal(signal, res) ==
    /\ Len(orders) < MaxOverlapOrders
    /\ handler.pc # "returned"
    /\ Len(handler.calls) < MaxOverlap
    /\ LET out == execute_signal(Cur, signal, NoneVal, res)
       IN  /\ Becomes(out.st)
           /\ last' = LoopCall(signal, res, out)
           /\ before_buy' = RememberBuy(signal, out)
    /\ handler' = IF handler.pc = "none" THEN handler
                  ELSE [handler EXCEPT !.calls =
                           Append(@, [signal |-> signal, res |-> res])]
    /\ UNCHANGED <<triggers, running, frames, clock, fetcher, cycle, funds>>

NextOverlap ==
    \/ deposit_reads(R(50))
    \/ deposit_writes
    \/ \E amount \in {R(50), R(100)} : withdraw_reads(amount)
    \/ withdraw_writes
    \/ FundsDone
    \/ \E type \in {"BUY", "SELL"}, res \in ResultsNow :
          loop_execute_signal(Signal(type, DEFAULT_COINS[1], R(10), <<>>), res)

\* A paper executor that finds a ledger file with a balance of 100.
InitOverlap == InitWith({LedgerWith(R(100))}, {FALSE})

SpecOverlap == InitOverlap /\ [][NextOverlap]_vars

\* The state after these execute_signal calls, one after the other.
RECURSIVE AfterCalls(_, _)
AfterCalls(S, calls) ==
    IF calls = <<>> THEN S
    ELSE AfterCalls(execute_signal(S, calls[1].signal, NoneVal, calls[1].res).st,
                    Tail(calls))

\* The state after the paper-funds method run start to return.
AfterFunds(S, op, amount) ==
    IF op = "deposit_paper_funds" THEN deposit_paper_funds(S, amount).st
    ELSE withdraw_paper_funds(S, amount).st

\* The serial order in which the wallet request comes after the first j of
\* the loop's calls that overlapped it.
SerialOrder(j) ==
    AfterCalls(AfterFunds(AfterCalls(handler.began[1],
                                     SubSeq(handler.calls, 1, j)),
                          last.op, handler.amount),
               SubSeq(handler.calls, j + 1, Len(handler.calls)))

\* C25 as stated: when a paper-funds operation has run beside execute_signal
\* calls of the polling loop, the balance is the one some serial order of the
\* operations gives: no update of the balance is lost.
C25_NoLostBalanceUpdate ==
    (handler.pc = "returned" /\ FundsCall) =>
        \E j \in 0..Len(handler.calls) :
            paper_balance = SerialOrder(j).paper_balance

\* A paper-funds operation returned after the loop had bought beside it.
FundsBesideBuy ==
    /\ handler.pc = "returned"
    /\ FundsCall
    /\ handler.calls # <<>>
    /\ Len(orders) > Len(handler.began[1].orders)

\* ------------------------------------------------------------------------
\* Trades and fills
\* ------------------------------------------------------------------------

\* A filled buy Order for the symbol is on record.
FilledBuyRecorded(sym) ==
    \E i \in 1..Len(orders) :
        /\ orders[i].symbol = sym
        /\ orders[i].side = "buy"
        /\ orders[i].status = "filled"

\* C26 as stated: a Trade is created only on a buy fill: whenever an open
\* Trade or a Position exists for a symbol, a filled buy Order for that symbol
\* has been recorded; a live buy that the adapter reports as not closed
\* (Order pending) creates no open Trade and no Position.
C26_TradeOnlyOnFill ==
    \A sym \in Symbols :
        (OpenTrades(sym) # {} \/ sym \in DOMAIN positions) =>
            FilledBuyRecorded(sym)

\* ------------------------------------------------------------------------
\* Identifiers
\* ------------------------------------------------------------------------

\* The paper orders on record, in the order they were recorded.
PaperOrders == SelectSeq(orders, LAMBDA o : o.is_paper)

\* C27 as stated: within one process the paper order ids are PAPER-1,
\* PAPER-2, ... in the order the paper orders were recorded, the trade ids are
\* TRADE-1, TRADE-2, ... in the order the trades were created in either mode,
\* so no two paper orders and no two trades share an id, and an execution
\* that is rejected or fails (returns nothing) consumes no id.
C27_IdsSequential ==
    /\ \A i \in 1..Len(PaperOrders) : PaperOrders[i].order_id = <<"PAPER", i>>
    /\ order_counter = Len(PaperOrders)
    /\ \A i \in 1..Len(trades) : trades[i].trade_id = <<"TRADE", i>>
    /\ trade_counter = Len(trades)
    /\ (Called /\ last.ret = <<>>) =>
           /\ order_counter = Pre.order_counter
           /\ trade_counter = Pre.trade_counter

\* ------------------------------------------------------------------------
\* Writes of the ledger file that fail
\* ------------------------------------------------------------------------

\* The disk starts or stops refusing the write of logs/trades.log.
DiskChanges(d) ==
    /\ d # disk
    /\ disk' = d
    /\ UNCHANGED <<paper_mode, exchange, paper_balance, orders, trades,
                   order_counter, trade_counter, file, positions, triggers,
                   running, frames, last, before_buy, clock, fetcher, cycle,
                   handler, funds>>

\* Paper trading of the first coin and the wallet handlers on a disk that can
\* fail at any time.
NextDisk ==
    \/ NextWallet
    \/ \E d \in {"ok", "denied", "full"} : DiskChanges(d)

InitDisk == InitWith({LedgerWith(R(100))}, {FALSE})

SpecDisk == InitDisk /\ [][NextDisk]_vars

\* The last call was an operation that writes the ledger when it succeeds.
LedgerCall == Called \/ FundsCall

\* What the last call does from state S.
Replayed(S) ==
    CASE last.op = "execute_signal" ->
            execute_signal(S, last.signal, last.amount, last.res)
      [] last.op = "deposit_paper_funds" -> deposit_paper_funds(S, last.amount)
      [] last.op = "withdraw_paper_funds" -> withdraw_paper_funds(S, last.amount)
      [] last.op = "reset_paper_funds" -> reset_paper_funds(S, last.amount)

\* The in-memory ledger and the positions of a state.
Memory(S) ==
    [paper_balance |-> S.paper_balance, orders |-> S.orders,
     trades |-> S.trades, order_counter |-> S.order_counter,
     trade_counter |-> S.trade_counter, positions |-> S.positions]

\* C28: when the write of the ledger file fails, the operation still
\* completes: balance, orders, trades and positions in memory are what the
\* same call leaves on a working disk, the same Order (or True/False) is
\* returned and no exception reaches the caller; this holds for every later
\* operation too.
C28_WriteFailureTolerated ==
    (LedgerCall /\ Pre.disk # "ok") =>
        LET ideal == Replayed([Pre EXCEPT !.disk = "ok"])
        IN  /\ Memory(Cur) = Memory(ideal.st)
            /\ last.ret = ideal.ret
            /\ ~last.raised
            /\ Pre.disk = "denied" => file = Pre.file

\* C28 witness: a SELL returned its Order and closed the trade while the disk
\* refused the write, after the BUY before it could not be written either:
\* the file still holds the ledger of the start.
C28_Witness ==
    /\ Called
    /\ Pre.disk = "denied"
    /\ last.signal.signal_type = "SELL"
    /\ last.ret # <<>>
    /\ Len(orders) = 2
    /\ positions = <<>>
    /\ file = LedgerWith(R(100))

\* ------------------------------------------------------------------------
\* Positions and open trades
\* ------------------------------------------------------------------------

CoinsTraded == {DEFAULT_COINS[i] : i \in 1..Len(DEFAULT_COINS)}

\* The trades the last call closed.
ClosedByLastCall ==
    {i \in 1..Len(Pre.trades) :
        Pre.trades[i].status = "open" /\ trades[i].status = "closed"}

\* C29 as stated: in every quiescent state a symbol has an open Position
\* exactly when it has exactly one open Trade, with the Position's quantity
\* and entry price (and no open Trade otherwise); every successful SELL closes
\* exactly one Trade and removes exactly that symbol's Position.
C29_PositionsMirrorOpenTrades ==
    AllIdle =>
        /\ \A sym \in CoinsTraded :
              IF sym \in DOMAIN positions
              THEN /\ Cardinality(OpenTrades(sym)) = 1
                   /\ \A i \in OpenTrades(sym) :
                         /\ trades[i].quantity = positions[sym].quantity
                         /\ trades[i].entry_price = positions[sym].entry_price
              ELSE OpenTrades(sym) = {}
        /\ (Called /\ last.signal.signal_type = "SELL" /\ last.ret # <<>>) =>
              /\ Len(trades) = Len(Pre.trades)
              /\ Cardinality(ClosedByLastCall) = 1
              /\ \A i \in ClosedByLastCall :
                    trades[i].symbol = last.signal.symbol
              /\ positions = [s \in DOMAIN Pre.positions \ {last.signal.symbol}
                                 |-> Pre.positions[s]]

\* ------------------------------------------------------------------------
\* Conservation of paper funds
\* ------------------------------------------------------------------------

MaxFundsOrders == 3

\* Paper trading of two symbols at prices 10 and 11 with an amount of 50,
\* deposits of 50 and withdrawals of 50 and 250.
NextFunds ==
    \/ CallExecute({"BUY", "SELL"}, Symbols, {R(10), R(11)}, {R(50)},
                   MaxFundsOrders)
    \/ wallet_deposit(R(50))
    \/ \E amount \in {R(50), R(250)} : wallet_withdraw(amount)

\* A paper executor that finds a ledger file with a balance of 100.
InitFunds == InitWith({LedgerWith(R(100))}, {FALSE})

SpecFunds == InitFunds /\ [][NextFunds]_vars

\* The sum of quantity * entry_price over the open trades.
RECURSIVE OpenCost(_)
OpenCost(ts) ==
    IF ts = <<>> THEN R(0)
    ELSE RAdd(IF ts[1].status = "open"
              THEN RMul(ts[1].quantity, ts[1].entry_price) ELSE R(0),
              OpenCost(Tail(ts)))

\* sum(t.pnl for t in trades if t.status == 'closed')
RECURSIVE ClosedPnl(_)
ClosedPnl(ts) ==
    IF ts = <<>> THEN R(0)
    ELSE RAdd(IF ts[1].status = "closed" THEN ts[1].pnl ELSE R(0),
              ClosedPnl(Tail(ts)))

get_total_pnl(S) == ClosedPnl(S.trades)

\* C30: in paper mode within one process, after any sequence of
\* execute_signal, deposit and withdraw calls, the balance equals the starting
\* balance plus the deposits less the withdrawals, less the cost
\* quantity * entry_price of the open trades, plus the pnl of the closed
\* trades.
C30_PaperFundsConserved ==
    Balance(Cur) = RAdd(RSub(RAdd(funds.start, funds.net), OpenCost(trades)),
                        get_total_pnl(Cur))

\* C30 witness: after a deposit and a withdrawal that do not cancel, a trade
\* closed with a profit and another trade is open.
C30_Witness ==
    /\ funds.net # R(0)
    /\ last.op = "withdraw_paper_funds"
    /\ last.ret = <<TRUE>>
    /\ RLt(R(0), get_total_pnl(Cur))
    /\ \E sym \in Symbols : OpenTrades(sym) # {}

\* ------------------------------------------------------------------------
\* Mode switches between a buy and its sell
\* ------------------------------------------------------------------------

\* C31 as stated: for any sequence of set_mode, BUY and SELL, a position
\* opened in live mode is never sold through the paper path and a position
\* opened in paper mode is never sold through the exchange adapter: the Trade
\* a SELL closes was opened in the mode of the sell Order.
C31_SoldInTheModeBought ==
    (Called /\ last.signal.signal_type = "SELL" /\ last.ret # <<>>) =>
        \A i \in ClosedByLastCall :
            trades[i].is_paper = last.ret[1].is_paper


\* ------------------------------------------------------------------------
\* Wallet requests and signals with amounts and prices of either sign
\* ------------------------------------------------------------------------

\* The amounts a reset request carries: float(data.get('amount', 10000.0))
\* is passed on whatever its sign.
ResetAmounts == {R(-50), R(0), R(100)}

\* The prices of the signals: the caller's, of either sign.
SignedPrices == {R(-1), R(10)}

NextAmounts ==
    \/ CallExecute({"BUY", "SELL"}, {DEFAULT_COINS[1]}, SignedPrices,
                   {NoneVal}, MaxWalletOrders)
    \/ wallet_deposit(R(50))
    \/ \E amount \in {R(50), R(250)} : wallet_withdraw(amount)
    \/ \E amount \in ResetAmounts : wallet_reset(amount)

InitAmounts == InitWith({LedgerWith(R(100))}, {FALSE})

SpecAmounts == InitAmounts /\ [][NextAmounts]_vars

\* C32 as stated: the paper USDT balance is never negative, whatever the
\* sequence of execute_signal, deposit_paper_funds, withdraw_paper_funds and
\* reset_paper_funds calls, their amounts and the signal prices.
C32_PaperBalanceNeverNegative ==
    RLe(R(0), DictGet(paper_balance, "USDT", R(0)))


\* ------------------------------------------------------------------------
\* Signals at a price that is not positive
\* ------------------------------------------------------------------------

\* C33 as stated: no order is ever recorded at a non-positive price: a SELL
\* signal whose price is <= 0 is rejected like a BUY is, so it returns
\* nothing and no Order, closed Trade or balance change results from it.
C33_NoOrderAtNonPositivePrice ==
    /\ \A i \in 1..Len(orders) : RLt(R(0), orders[i].price)
    /\ (Called /\ IsNum(last.signal.price) /\ RLe(last.signal.price, R(0))) =>
           /\ last.ret = <<>>
           /\ orders = Pre.orders
           /\ trades = Pre.trades
           /\ paper_balance = Pre.paper_balance


\* ------------------------------------------------------------------------
\* The polling loops of start_bot and stop_bot
\* ------------------------------------------------------------------------

\* The run_bot_loop threads that have not returned.
LoopThreads == {t \in Threads : frames[t].pc # "none"}

\* C34 as stated: at most one polling loop is running at any time: for every
\* sequence of start_bot and stop_bot requests there are never two
\* run_bot_loop threads that find the flag set and call check_for_signals.
C34_AtMostOneLoop ==
    running => Cardinality(LoopThreads) <= 1


\* The snapshots of a loop that can be stopped: an oversold coin with a dip and
\* a volume spike (a BUY under the default triggers).
StopSnapshots == {Snapshot(R(10), R(30), R(5), Rat(3, 2))}

\* send_update and the sleep once the clock of the model is at MaxClock: the
\* pass ends as in send_update and the time is no longer counted.
LastSleep(t) ==
    /\ frames[t].pc = "loop"
    /\ frames[t].checks = Len(ConfiguredCoins)
    /\ clock + STRATEGY_CHECK_INTERVAL > MaxClock
    /\ fetcher' = get_current_prices(fetcher, clock, CoinSet).fetcher
    /\ cycle' = [cycle EXCEPT ![t] =
                    [evaluated |-> <<>>, finished |-> <<@.evaluated>>]]
    /\ frames' = [frames EXCEPT ![t].checks = 0]
    /\ UNCHANGED <<paper_mode, exchange, paper_balance, orders, trades,
                   order_counter, trade_counter, file, disk, positions, triggers,
                   running, last, before_buy, clock, handler, funds>>

NextStop ==
    \/ start_bot
    \/ stop_bot
    \/ \E t \in Threads : LoopExits(t)
    \/ \E t \in Threads, snapshot \in StopSnapshots, res \in ResultsNow :
          check_symbol(t, snapshot, res)
    \/ \E t \in Threads : send_update(t)
    \/ \E t \in Threads : LastSleep(t)
    \/ SlowCall

\* A paper executor that finds a ledger file with a balance of 200 (two buys
\* of the default amount), a fresh fetcher, the bot stopped.
InitStop == InitWith({LedgerWith(R(200))}, {FALSE})

SpecStop == InitStop /\ [][NextStop]_vars

\* C36 as stated: after stop_bot has returned, the polling loop creates no new
\* Order until start_bot is called again, even when stop_bot arrives while
\* check_for_signals is in the middle of iterating over the coin list: while
\* the flag stays cleared no step adds an order.
C36_NoOrderAfterStop ==
    [][(~running /\ ~running') => orders' = orders]_vars

\* A loop inside its pass moves on: it takes the next turn over the coins
\* (check_symbol) or, after the last coin, ends the pass (send_update and
\* the sleep).  Where a loop stands is all these steps depend on.
LoopMovesOn ==
    \E t \in Threads :
        /\ frames[t].pc = "loop"
        /\ running \/ frames[t].checks > 0
        /\ frames' = [frames EXCEPT ![t].checks =
                         IF @ < Len(ConfiguredCoins) THEN @ + 1 ELSE 0]

\* The threads of the loops are scheduled and every step of a loop returns:
\* while some loop can move on in its pass, one does in the end, and while
\* some loop can find the flag cleared, one does in the end.
FairLoops ==
    /\ WF_frames(LoopMovesOn)
    /\ WF_vars(\E t \in Threads : LoopExits(t))

SpecStopFair == SpecStop /\ FairLoops

\* C35: once stop_bot has been called and start_bot is not called again, every
\* polling loop eventually exits, after at most finishing its pass and its
\* sleep, and with no loop left no call of execute_signal completes.
C35_StoppedLoopsExit ==
    /\ [][LoopThreads = {} => last' = last]_vars
    /\ <>[](~running) => <>[](LoopThreads = {})

\* The bot is stopped and every loop has returned after it placed an order.
C35_Witness ==
    /\ ~running
    /\ LoopThreads = {}
    /\ orders # <<>>


\* ------------------------------------------------------------------------
\* The ledger file over the saves of one process and of the next
\* ------------------------------------------------------------------------

\* The orders and the trade ids a ledger file holds (none when the file is
\* missing or cannot be read).
PersistedOrders(f) ==
    IF f = <<>> \/ "orders" \notin DOMAIN f[1] THEN {}
    ELSE {f[1].orders[i] : i \in 1..Len(f[1].orders)}

PersistedTradeIds(f) ==
    IF f = <<>> \/ "trades" \notin DOMAIN f[1] THEN {}
    ELSE {f[1].trades[i].trade_id : i \in 1..Len(f[1].trades)}

\* C37 as stated: the persisted history only grows: an order or trade written
\* to the ledger file by one save is still present in the file after every
\* later save, including saves made after a process restart.
C37_PersistedHistoryGrows ==
    [][/\ PersistedOrders(file) \subseteq PersistedOrders(file')
       /\ PersistedTradeIds(file) \subseteq PersistedTradeIds(file')]_vars


\* ------------------------------------------------------------------------
\* The price cache and the symbols of a call
\* ------------------------------------------------------------------------

\* C38 as stated: get_current_prices(symbols) answers for the symbols of the
\* current call: whatever calls came before, and also when the answer is
\* served from the 10-second cache, the returned mapping contains a price for
\* every requested symbol the source knows.
C38_PricesForRequestedSymbols ==
    \A symbols \in SUBSET CoinSet \ {{}} :
        \A symbol \in symbols :
            symbol \in DOMAIN get_current_prices(fetcher, clock, symbols).prices

====
